---- MODULE Spec2Model ----
(***************************************************************************)
(* A model of the incremental semantic code index of PR-Bot:               *)
(*   - VectorStore  (src/app/core/vector_store.py)                         *)
(*   - KeyManager   (src/app/core/key_manager.py)                          *)
(* Every operator that models code carries the name of the method it       *)
(* models.  Python lists are sequences (index i of the code is i + 1       *)
(* here), dicts are functions, numpy matrices are sequences of rows.       *)
(***************************************************************************)
EXTENDS Integers, Sequences, FiniteSets, TLC

VARIABLES
    embeddings,       \* VectorStore.embeddings: the matrix, a sequence of rows
    metadata,         \* VectorStore.metadata: the list of chunk records
    file_hashes,      \* VectorStore.file_hashes: file path -> content hash
    disk_embeddings,  \* the artifact embeddings.npy
    disk_metadata,    \* the artifact metadata.json
    disk_hashes,      \* the artifact file_hashes.json
    restarts,         \* the number of times the store was re-opened
    supplied,         \* history: chunk id -> the embedding supplied with it
    last,             \* history: the last call, its outcome and return value
    keys,             \* KeyManager.keys: the configured credentials
    current_index,    \* KeyManager.current_index: the round-robin cursor
    cooldowns,        \* KeyManager.cooldowns: key -> time it becomes available
    now,              \* the clock read by time.time()
    issued,           \* history: the keys returned while nothing was reported
    reported,         \* history: whether a rate limit was ever reported
    km_last,          \* history: the last KeyManager call and what it returned
    embed_call,       \* EmbeddingsClient.embed: its position, api_key and return value
    chunk_call,       \* the last _chunk_code call: its arguments and its chunks
    contents,         \* CodebaseIndexer: the entries a crawl or batch still has to process
    stats,            \* CodebaseIndexer: the stats dict of the running crawl or batch
    idx_last,         \* history: the last entry the indexer processed and what it did
    visited,          \* history: the root listing of a crawl and the files it processed
    embed_batch,      \* the _index_file call in progress: its embed_batch loop
    tasks,            \* the concurrent embed calls that share one KeyManager
    writers,          \* the indexing tasks in flight, each with its own VectorStore
    dirs              \* the index directories on disk: directory -> its three artifacts

storeVars == <<embeddings, metadata, file_hashes,
               disk_embeddings, disk_metadata, disk_hashes, restarts, supplied, last>>

keyVars == <<keys, current_index, cooldowns, now, issued, reported, km_last>>

runVars == <<visited, embed_batch, tasks, writers, dirs>>

auxVars == <<embed_call, chunk_call, contents, stats, idx_last, runVars>>

vars == <<storeVars, keyVars, auxVars>>

-----------------------------------------------------------------------------
(* Bounds and input sets                                                   *)

MaxChunks == 2      \* chunks passed to one add_chunks call
MaxK == 2           \* largest n_results asked of query
MaxRestarts == 1    \* re-openings of the store in one behaviour
MaxKeys == 3        \* configured credentials
MaxCalls == 5       \* get_next_key calls recorded in issued
MaxTicks == 3       \* clock advances in one behaviour
MaxAttempts == 3    \* the requests of one embed call are counted modulo this
MaxLines == 131     \* lines of a file passed to _chunk_code
MaxBatch == 2       \* entries of a root listing, paths of an index_files call
MaxRuns == 2        \* index_full / index_files runs in one behaviour
LongFile == 4200    \* lines of the long file passed to _chunk_code
MaxTasks == 2       \* concurrent embed calls on one KeyManager
MaxWriters == 2     \* indexing tasks launched in one behaviour

Files == {"a.py", "b.py"}

\* File contents.  _compute_hash keeps 16 hex digits of the digest, a map
\* from unboundedly many strings into a finite set: it cannot be injective.
\* "c1" and "c3" stand for two contents with the same truncated digest.
Contents == {"c1", "c2", "c3"}

\* Embedding vectors of the deployment's dimension, and one vector of
\* another dimension (a provider whose output dimension changed).
Vectors2 == {<<1, 0>>, <<0, 1>>, <<2, 0>>}
Vectors1 == {<<1>>}
UnitVectors == {<<1, 0>>, <<0, 1>>}
QueryVectors == UnitVectors \cup {<<>>}

Min(a, b) == IF a < b THEN a ELSE b

-----------------------------------------------------------------------------
(* Pure helpers of VectorStore                                             *)

CONTENT_CAP == 500
EPS_INV == 100000000   \* 1 / 1e-8, the epsilon of query's normalisation

_compute_hash(content) ==
    CASE content = "c1" -> "h1"
      [] content = "c2" -> "h2"
      [] OTHER          -> "h1"

EmptyHashes == [p \in {} |-> ""]

Truncate(content) == SubSeq(content, 1, Min(Len(content), CONTENT_CAP))

\* The chunk dicts the indexer passes for n surviving chunks of a file with
\* content c.
MakeChunks(path, c, n) ==
    [i \in 1..n |-> [type |-> "code_chunk", name |-> path, content |-> <<c, i>>]]

\* Lists of n embeddings, all rows of one dimension: rows drawn from V, or
\* (when other is set) rows of the other dimension.
EmbLists(V, other, n) ==
    IF n = 0 THEN {<<>>}
    ELSE [1..n -> V] \cup (IF other THEN [1..n -> Vectors1] ELSE {})

\* add_chunks, the comprehension building new_metadata (enumerate is 0-based).
NewMetadata(path, chunks) ==
    [i \in 1..Len(chunks) |->
        [id |-> <<path, i - 1>>,
         file_path |-> path,
         chunk_index |-> i - 1,
         chunk_type |-> chunks[i].type,
         name |-> chunks[i].name,
         content |-> Truncate(chunks[i].content)]]

Artifact(d) == [status |-> "ok", data |-> d]
Missing(empty) == [status |-> "missing", data |-> empty]

\* An artifact whose file is there and cannot be read back (np.load or
\* json.load raises on it); what was written is kept to tell it from none.
Unreadable(art) == [status |-> "corrupt", data |-> art.data]

\* A _load_hashes that returns whatever the file held, readable or not.
_load_hashes_IgnoresStatus(art) == art.data

\* The loaders: the stored value when the file exists and reads back, the
\* empty value when it is missing or the read raises.
_load_embeddings(art) == IF art.status = "ok" THEN art.data ELSE <<>>
_load_metadata(art) == IF art.status = "ok" THEN art.data ELSE <<>>
_load_hashes(art) == IF art.status = "ok" THEN art.data ELSE EmptyHashes

\* The store as one record, so that the methods compose as in the code.
Store ==
    [embeddings |-> embeddings, metadata |-> metadata, file_hashes |-> file_hashes,
     disk_embeddings |-> disk_embeddings, disk_metadata |-> disk_metadata,
     disk_hashes |-> disk_hashes]

\* A _save that writes no artifact of an empty collection.
_save_SkipsEmpty(s) ==
    [s EXCEPT !.disk_embeddings =
                  IF Len(s.embeddings) > 0 THEN Artifact(s.embeddings) ELSE @,
              !.disk_metadata = IF Len(s.metadata) > 0 THEN Artifact(s.metadata) ELSE @,
              !.disk_hashes =
                  IF DOMAIN s.file_hashes # {} THEN Artifact(s.file_hashes) ELSE @]

\* _save: the matrix is written only when it has rows.
_save(s) ==
    [s EXCEPT !.disk_embeddings =
                  IF Len(s.embeddings) > 0 THEN Artifact(s.embeddings) ELSE @,
              !.disk_metadata = Artifact(s.metadata),
              !.disk_hashes = Artifact(s.file_hashes)]

\* A needs_update that takes a file with no stored hash for up to date.
needs_update_MissingIsFresh(hashes, path, content) ==
    IF path \in DOMAIN hashes THEN hashes[path] # _compute_hash(content) ELSE FALSE

needs_update(hashes, path, content) ==
    IF path \in DOMAIN hashes THEN hashes[path] # _compute_hash(content) ELSE TRUE

\* Keep indices that leave out the first record as well.
KeepIndices_DropsFirst(meta, path) ==
    SelectSeq([i \in 1..Len(meta) |-> i], LAMBDA i : meta[i].file_path # path /\ i > 1)

KeepIndices(meta, path) ==
    SelectSeq([i \in 1..Len(meta) |-> i], LAMBDA i : meta[i].file_path # path)

\* A _delete_file_chunks that keeps the first rows of the matrix instead of
\* the rows at keep_indices.
DeleteKept_KeepsFirstRows(s, keep) ==
    IF Len(keep) = Len(s.metadata) THEN [st |-> s, raised |-> FALSE]
    ELSE [st |-> _save([s EXCEPT
                   !.metadata = [j \in 1..Len(keep) |-> s.metadata[keep[j]]],
                   !.embeddings = SubSeq(s.embeddings, 1, Len(keep))]),
          raised |-> FALSE]

\* _delete_file_chunks once keep_indices is computed: the store after the
\* call and whether it raised (fancy indexing the matrix with an index
\* beyond its rows, after the metadata list is already filtered).
DeleteKept(s, keep) ==
    IF Len(keep) = Len(s.metadata) THEN [st |-> s, raised |-> FALSE]
    ELSE IF Len(s.embeddings) > 0 /\ Len(keep) > 0
    THEN IF \E j \in 1..Len(keep) : keep[j] > Len(s.embeddings)
         THEN [st |-> [s EXCEPT !.metadata = [j \in 1..Len(keep) |-> s.metadata[keep[j]]]],
               raised |-> TRUE]
         ELSE [st |-> _save([s EXCEPT
                        !.metadata = [j \in 1..Len(keep) |-> s.metadata[keep[j]]],
                        !.embeddings = [j \in 1..Len(keep) |-> s.embeddings[keep[j]]]]),
               raised |-> FALSE]
    ELSE IF Len(keep) = 0
    THEN [st |-> _save([s EXCEPT !.metadata = <<>>, !.embeddings = <<>>]),
          raised |-> FALSE]
    ELSE [st |-> _save([s EXCEPT
                   !.metadata = [j \in 1..Len(keep) |-> s.metadata[keep[j]]]]),
          raised |-> FALSE]

\* A _delete_file_chunks that removes nothing.
_delete_file_chunks_Skips(s, path) == [st |-> s, raised |-> FALSE]

_delete_file_chunks(s, path) ==
    IF Len(s.metadata) = 0 THEN [st |-> s, raised |-> FALSE]
    ELSE CHOOSE d \in {DeleteKept(s, keep) : keep \in {KeepIndices(s.metadata, path)}} : TRUE

RowDim(matrix) == Len(matrix[1])

PutHash(hashes, path, h) ==
    [p \in DOMAIN hashes \cup {path} |-> IF p = path THEN h ELSE hashes[p]]

DropHash(hashes, path) ==
    [p \in DOMAIN hashes \ {path} |-> hashes[p]]

\* add_chunks after its call of _delete_file_chunks returned d.
AddAfterDelete(d, path, chunks, embs, content_hash) ==
    IF d.raised THEN [st |-> d.st, outcome |-> "raised"]
    ELSE IF Len(d.st.embeddings) # 0 /\ RowDim(d.st.embeddings) # RowDim(embs)
    THEN [st |-> d.st, outcome |-> "raised"]
    ELSE [st |-> _save([d.st EXCEPT
                   !.embeddings = IF Len(@) = 0 THEN embs ELSE @ \o embs,
                   !.metadata = @ \o NewMetadata(path, chunks),
                   !.file_hashes = PutHash(@, path, content_hash)]),
          outcome |-> "ok"]

\* An add_chunks that appends without removing the file's old chunks.
add_chunks_KeepsOld(s, path, chunks, embs, content_hash) ==
    IF Len(chunks) = 0 \/ Len(embs) = 0 THEN [st |-> s, outcome |-> "noop"]
    ELSE AddAfterDelete([st |-> s, raised |-> FALSE], path, chunks, embs, content_hash)

\* An add_chunks that removes the file's old chunks before it looks at its
\* lists.
add_chunks_DeletesBeforeGuard(s, path, chunks, embs, content_hash) ==
    IF Len(chunks) = 0 \/ Len(embs) = 0
    THEN [st |-> _delete_file_chunks(s, path).st, outcome |-> "noop"]
    ELSE AddAfterDelete(_delete_file_chunks(s, path), path, chunks, embs, content_hash)

\* add_chunks: the store after the call and its outcome: "noop" (an empty
\* list), "raised" (np.vstack on rows of another dimension, after the old
\* chunks are gone) or "ok".
add_chunks(s, path, chunks, embs, content_hash) ==
    IF Len(chunks) = 0 \/ Len(embs) = 0 THEN [st |-> s, outcome |-> "noop"]
    ELSE CHOOSE r \in {AddAfterDelete(d, path, chunks, embs, content_hash) :
                          d \in {_delete_file_chunks(s, path)}} : TRUE

\* delete_file after its call of _delete_file_chunks returned d.
DropAfterDelete(d, path) ==
    IF d.raised THEN [st |-> d.st, outcome |-> "raised"]
    ELSE IF path \in DOMAIN d.st.file_hashes
    THEN [st |-> _save([d.st EXCEPT !.file_hashes = DropHash(@, path)]),
          outcome |-> "ok"]
    ELSE [st |-> d.st, outcome |-> "ok"]

\* A delete_file that removes the chunks and leaves the hash entry.
delete_file_KeepsHash(s, path) ==
    CHOOSE r \in {[st |-> d.st, outcome |-> IF d.raised THEN "raised" ELSE "ok"] :
                    d \in {_delete_file_chunks(s, path)}} : TRUE

delete_file(s, path) ==
    CHOOSE r \in {DropAfterDelete(d, path) : d \in {_delete_file_chunks(s, path)}} : TRUE

get_stats(meta, hashes) ==
    [total_chunks |-> Len(meta), indexed_files |-> Cardinality(DOMAIN hashes)]

ChunkCount(meta, path) == Len(SelectSeq(meta, LAMBDA m : m.file_path = path))

-----------------------------------------------------------------------------
(* query                                                                   *)

RECURSIVE Dot(_, _)
Dot(a, b) == IF Len(a) = 0 THEN 0 ELSE a[1] * b[1] + Dot(Tail(a), Tail(b))

\* np.linalg.norm; the vectors of the model have integer norms.
Norm(v) == CHOOSE r \in 0..Dot(v, v) : r * r = Dot(v, v)

\* A similarity of the opposite sign.
Similarity_Negated(row, q) == [dot |-> 0 - Dot(row, q), norm |-> Norm(row), qnorm |-> Norm(q)]

\* The cosine similarity dot / ((norm + eps) * (qnorm + eps)) of a row and
\* the query, kept as the exact numbers it is computed from.
Similarity(row, q) == [dot |-> Dot(row, q), norm |-> Norm(row), qnorm |-> Norm(q)]

\* s1 > s2 for two similarities to the same query: the positive factor
\* (qnorm + eps) cancels, and both sides are scaled by 1 / eps.
SimGreater(s1, s2) ==
    s1.dot * (s2.norm * EPS_INV + 1) > s2.dot * (s1.norm * EPS_INV + 1)

\* "distance": 1 - sim, kept as the similarity it is one minus of.
Distance(sim) == [one_minus |-> sim]
DistLeq(d1, d2) == ~SimGreater(d2.one_minus, d1.one_minus)

NoFilter == [k \in {} |-> ""]
Filters == {NoFilter, [file_path |-> "a.py"]}

\* valid_indices of query
ValidIndices(meta, filter) ==
    IF DOMAIN filter # {}
    THEN SelectSeq([i \in 1..Len(meta) |-> i],
                   LAMBDA i : \A k \in DOMAIN filter : meta[i][k] = filter[k])
    ELSE [i \in 1..Len(meta) |-> i]

\* list.sort(key = similarity, reverse = True) on (index, similarity) pairs
\* is a stable sort: a pair comes before another when its similarity is
\* greater, or equal with the pair earlier in the list.
\* A sort without reverse = True: ascending similarity.
Before_Ascending(pairs, i, j) ==
    \/ SimGreater(pairs[j][2], pairs[i][2])
    \/ (~SimGreater(pairs[i][2], pairs[j][2]) /\ i < j)

\* A sort that puts the later of two equal pairs first.
Before_LaterFirst(pairs, i, j) ==
    \/ SimGreater(pairs[i][2], pairs[j][2])
    \/ (~SimGreater(pairs[j][2], pairs[i][2]) /\ i > j)

Before(pairs, i, j) ==
    \/ SimGreater(pairs[i][2], pairs[j][2])
    \/ (~SimGreater(pairs[j][2], pairs[i][2]) /\ i < j)

SortDesc(pairs) ==
    [r \in 1..Len(pairs) |->
        pairs[CHOOSE j \in 1..Len(pairs) :
                Cardinality({i \in 1..Len(pairs) : Before(pairs, i, j)}) = r - 1]]

\* The top_indices of query: (index, similarity) pairs, best first.
TopIndices(emb, meta, q, k, filter) ==
    LET valid == ValidIndices(meta, filter)
        pairs == [j \in 1..Len(valid) |-> <<valid[j], Similarity(emb[valid[j]], q)>>]
    IN  SubSeq(SortDesc(pairs), 1, Min(k, Len(pairs)))

\* query: the returned list and whether the call raised (np.dot on rows of
\* another dimension than the query; a valid index beyond the matrix).
query(emb, meta, q, k, filter) ==
    IF Len(q) = 0 \/ Len(emb) = 0 THEN [ret |-> <<>>, outcome |-> "ok"]
    ELSE IF RowDim(emb) # Len(q) THEN [ret |-> <<>>, outcome |-> "raised"]
    ELSE
      LET valid == ValidIndices(meta, filter)
      IN  IF Len(valid) = 0 THEN [ret |-> <<>>, outcome |-> "ok"]
          ELSE IF \E j \in 1..Len(valid) : valid[j] > Len(emb)
          THEN [ret |-> <<>>, outcome |-> "raised"]
          ELSE
            LET top == TopIndices(emb, meta, q, k, filter)
            IN  [ret |-> [j \in 1..Len(top) |->
                            [id |-> meta[top[j][1]].id,
                             content |-> meta[top[j][1]].content,
                             metadata |-> [file_path |-> meta[top[j][1]].file_path,
                                           chunk_type |-> meta[top[j][1]].chunk_type,
                                           name |-> meta[top[j][1]].name],
                             distance |-> Distance(top[j][2])]],
                 outcome |-> "ok"]

-----------------------------------------------------------------------------
(* The state machine of one store                                          *)

NoCall ==
    [op |-> "init", path |-> "", content |-> "", n |-> 0, m |-> 0, outcome |-> "ok",
     replaced |-> FALSE,
     q |-> <<>>, k |-> 0, filter |-> NoFilter, ret |-> <<>>]

\* VectorStore.__init__ on a directory that holds no artifact yet.
InitStore ==
    /\ embeddings = <<>>
    /\ metadata = <<>>
    /\ file_hashes = EmptyHashes
    /\ disk_embeddings = Missing(<<>>)
    /\ disk_metadata = Missing(<<>>)
    /\ disk_hashes = Missing(EmptyHashes)
    /\ restarts = 0
    /\ supplied = [id \in {} |-> <<>>]
    /\ last = NoCall

SetStoreFields(s) ==
    /\ embeddings' = s.embeddings
    /\ metadata' = s.metadata
    /\ file_hashes' = s.file_hashes
    /\ disk_embeddings' = s.disk_embeddings
    /\ disk_metadata' = s.disk_metadata
    /\ disk_hashes' = s.disk_hashes

SetStore(s) == SetStoreFields(s) /\ UNCHANGED <<restarts, keyVars, auxVars>>

Ids(meta) == {meta[i].id : i \in 1..Len(meta)}

\* The embedding each chunk record was supplied with, after a call that
\* supplied embs for the chunks of path (none when the call stored nothing).
Supplied(meta, path, embs, stored) ==
    [id \in Ids(meta) |->
        IF stored /\ id[1] = path THEN embs[id[2] + 1] ELSE supplied[id]]

AddChunks(path, c, n, embs) ==
    \E r \in {add_chunks(Store, path, MakeChunks(path, c, n), embs, _compute_hash(c))} :
        /\ SetStore(r.st)
        /\ supplied' = Supplied(r.st.metadata, path, embs, r.outcome = "ok")
        /\ last' = [NoCall EXCEPT !.op = "add_chunks", !.path = path, !.content = c,
                                  !.n = n, !.m = Len(embs),
                                  !.replaced = ChunkCount(metadata, path) > 0,
                                  !.outcome = r.outcome]

DeleteFile(path) ==
    \E r \in {delete_file(Store, path)} :
        /\ SetStore(r.st)
        /\ supplied' = Supplied(r.st.metadata, path, <<>>, FALSE)
        /\ last' = [NoCall EXCEPT !.op = "delete_file", !.path = path,
                                  !.replaced = path \in DOMAIN file_hashes,
                                  !.outcome = r.outcome]

Query(q, k, filter) ==
    \E r \in {query(embeddings, metadata, q, k, filter)} :
        /\ last' = [NoCall EXCEPT !.op = "query", !.q = q, !.k = k, !.filter = filter,
                                  !.outcome = r.outcome, !.ret = r.ret]
        /\ UNCHANGED <<embeddings, metadata, file_hashes, disk_embeddings,
                       disk_metadata, disk_hashes, restarts, supplied, keyVars,
                       auxVars>>

\* A new VectorStore on the same directory (a process restart): __init__.
Reopen ==
    /\ restarts < MaxRestarts
    /\ restarts' = restarts + 1
    /\ embeddings' = _load_embeddings(disk_embeddings)
    /\ metadata' = _load_metadata(disk_metadata)
    /\ file_hashes' = _load_hashes(disk_hashes)
    /\ last' = [NoCall EXCEPT !.op = "reopen"]
    /\ UNCHANGED <<disk_embeddings, disk_metadata, disk_hashes, supplied, keyVars,
                   auxVars>>

\* The argument lists of an add_chunks call in which a list is empty.
EmptyInputs == {<<0, 0>>, <<0, 1>>, <<1, 0>>}

\* add_chunks with n chunks and n embeddings drawn from V (or, with other
\* set, of the other dimension) for a file whose content is in Cs.
AddCall(Cs, V, other) ==
    \E path \in Files, c \in Cs, n \in 1..MaxChunks :
        \E embs \in EmbLists(V, other, n) : AddChunks(path, c, n, embs)

\* add_chunks with an empty list.
AddEmptyCall(Cs) ==
    \E path \in Files, c \in Cs, nm \in EmptyInputs :
        AddChunks(path, c, nm[1], [i \in 1..nm[2] |-> <<1, 0>>])

DeleteCall == \E path \in Files : DeleteFile(path)

QueryCall ==
    \E q \in QueryVectors, k \in 0..MaxK, filter \in Filters : Query(q, k, filter)

\* No embed, _chunk_code or indexer call has been made.
NoEmbed ==
    [pc |-> "idle", api_key |-> <<"none", 0>>, ret |-> <<>>, attempt |-> 0,
     resp |-> "none"]
NoChunking == [file_path |-> <<>>, content |-> <<>>, called |-> FALSE, chunks |-> <<>>]
NoStats == [indexed |-> 0, skipped |-> 0, errors |-> 0]
NoEntry ==
    [run |-> "none", type |-> "none", path |-> <<>>, size |-> 0, fetches |-> TRUE,
     decodes |-> TRUE, content |-> "", raised |-> FALSE, embs |-> <<>>, requests |-> 0,
     outcome |-> "none"]
NoRun == [run |-> "none", queue |-> <<>>, runs |-> 0, n |-> 0]
NoVisits == [root |-> <<>>, seen |-> <<>>]
NoBatch ==
    [pc |-> "idle", path |-> <<>>, content |-> "", n |-> 0, other |-> FALSE,
     inflight |-> {}, sent |-> <<>>, embs |-> <<>>]

IdleRuns ==
    /\ visited = NoVisits
    /\ embed_batch = NoBatch

IdleIndexer ==
    /\ embed_call = NoEmbed
    /\ contents = NoRun
    /\ stats = NoStats
    /\ idx_last = NoEntry
    /\ IdleRuns

\* No indexing task was launched and no index directory was written.
NoArtifacts ==
    [embeddings |-> Missing(<<>>), metadata |-> Missing(<<>>),
     hashes |-> Missing(EmptyHashes)]
IdleWriters == writers = <<>> /\ dirs = <<>>

IdleAux == IdleIndexer /\ chunk_call = NoChunking /\ tasks = <<>> /\ IdleWriters

\* No KeyManager call happens in the store's specifications.
IdleKeys ==
    /\ keys = <<>>
    /\ current_index = 0
    /\ cooldowns = [k \in {} |-> 0]
    /\ now = 0
    /\ issued = <<>>
    /\ reported = FALSE
    /\ km_last = [op |-> "init", key |-> <<"none", 0>>, examined |-> 0]

Init == InitStore /\ IdleKeys /\ IdleAux

\* One store in one process: add_chunks and delete_file.
Next ==
    \/ AddCall({"c1", "c2"}, UnitVectors, TRUE)
    \/ AddEmptyCall({"c1", "c2"})
    \/ DeleteCall

Spec == Init /\ [][Next]_vars

\* Freshness: files of every content, one embedding vector.
NextHash ==
    \/ AddCall(Contents, {<<1, 0>>}, FALSE)
    \/ AddEmptyCall(Contents)
    \/ DeleteCall

SpecHash == Init /\ [][NextHash]_vars

\* One store directory across restarts.
NextRestart ==
    \/ AddCall({"c1"}, UnitVectors, TRUE)
    \/ DeleteCall
    \/ Reopen

SpecRestart == Init /\ [][NextRestart]_vars

\* Something outside the process removes an artifact or leaves it unreadable.
Damage(artifact, removed) ==
    /\ artifact \in {"embeddings", "metadata", "hashes"}
    /\ disk_embeddings' = IF artifact # "embeddings" THEN disk_embeddings
                          ELSE IF removed THEN Missing(<<>>)
                          ELSE Unreadable(disk_embeddings)
    /\ disk_metadata' = IF artifact # "metadata" THEN disk_metadata
                        ELSE IF removed THEN Missing(<<>>)
                        ELSE Unreadable(disk_metadata)
    /\ disk_hashes' = IF artifact # "hashes" THEN disk_hashes
                      ELSE IF removed THEN Missing(EmptyHashes)
                      ELSE Unreadable(disk_hashes)
    /\ last' = [NoCall EXCEPT !.op = "damage"]
    /\ UNCHANGED <<embeddings, metadata, file_hashes, restarts, supplied, keyVars,
                   auxVars>>

DamageAny ==
    \E artifact \in {"embeddings", "metadata", "hashes"}, removed \in BOOLEAN :
        Damage(artifact, removed)

\* One store directory across restarts, with artifacts lost or damaged
\* between the runs.
NextDamage ==
    \/ AddCall({"c1"}, {<<1, 0>>}, FALSE)
    \/ DeleteCall
    \/ DamageAny
    \/ Reopen

SpecDamage == Init /\ [][NextDamage]_vars

\* The read path: a store of one provider dimension, and queries on it.
NextQuery ==
    \/ AddCall({"c1"}, Vectors2, FALSE)
    \/ DeleteCall
    \/ QueryCall

SpecQuery == Init /\ [][NextQuery]_vars

-----------------------------------------------------------------------------
(* KeyManager                                                              *)

COOLDOWN_DURATION == 60

None == <<"none", 0>>
Credential(i) == <<"key", i>>

\* An _is_key_ready that takes a key for ready at the instant its cooldown
\* ends (>= for >).
_is_key_ready_AtDeadline(cd, t, key) ==
    IF key \notin DOMAIN cd THEN TRUE ELSE t >= cd[key]

\* _is_key_ready: whether the key is returned as ready; AfterReadyCheck is
\* the cooldown map the call leaves (an elapsed cooldown is deleted).
_is_key_ready(cd, t, key) ==
    IF key \notin DOMAIN cd THEN TRUE ELSE t > cd[key]

AfterReadyCheck(cd, t, key) ==
    IF key \in DOMAIN cd /\ _is_key_ready(cd, t, key)
    THEN [k \in DOMAIN cd \ {key} |-> cd[k]]
    ELSE cd

\* A cursor that advances by two.
NextIndex_SkipsOne(idx, K) == (idx + 2) % K

\* get_next_key: self.current_index = (self.current_index + 1) % len(self.keys)
NextIndex(idx, K) == (idx + 1) % K

\* The loop of get_next_key from cursor idx: the key returned, the cursor and
\* the cooldown map it leaves, and the number of keys examined.
RECURSIVE Scan(_, _, _, _, _, _)
Scan(ks, idx, cd, t, start, examined) ==
    LET key == ks[idx + 1]
        idx2 == NextIndex(idx, Len(ks))
    IN  IF _is_key_ready(cd, t, key)
        THEN [key |-> key, idx |-> idx2, cd |-> AfterReadyCheck(cd, t, key),
              examined |-> examined + 1]
        ELSE IF idx2 = start
        THEN [key |-> key, idx |-> idx2, cd |-> cd, examined |-> examined + 1]
        ELSE Scan(ks, idx2, cd, t, start, examined + 1)

\* A get_next_key that scans from the first key whatever the cursor.
get_next_key_FromZero(ks, idx, cd, t) ==
    IF Len(ks) = 0 THEN [key |-> None, idx |-> idx, cd |-> cd, examined |-> 0]
    ELSE Scan(ks, 0, cd, t, 0, 0)

\* A get_next_key that leaves the cursor where it found it.
get_next_key_KeepsCursor(ks, idx, cd, t) ==
    IF Len(ks) = 0 THEN [key |-> None, idx |-> idx, cd |-> cd, examined |-> 0]
    ELSE [Scan(ks, idx, cd, t, idx, 0) EXCEPT !.idx = idx]

\* A get_next_key that returns no key when every key is cooling down.
get_next_key_NoneWhenCooling(ks, idx, cd, t) ==
    IF Len(ks) = 0 \/ \A i \in 1..Len(ks) : ~_is_key_ready(cd, t, ks[i])
    THEN [key |-> None, idx |-> idx, cd |-> cd, examined |-> Len(ks)]
    ELSE Scan(ks, idx, cd, t, idx, 0)

get_next_key(ks, idx, cd, t) ==
    IF Len(ks) = 0 THEN [key |-> None, idx |-> idx, cd |-> cd, examined |-> 0]
    ELSE Scan(ks, idx, cd, t, idx, 0)

\* A report_rate_limit that leaves a cooldown that is already recorded.
report_rate_limit_KeepsFirst(cd, t, key) ==
    [k \in DOMAIN cd \cup {key} |->
        IF k \in DOMAIN cd THEN cd[k] ELSE t + COOLDOWN_DURATION]

report_rate_limit(cd, t, key) ==
    [k \in DOMAIN cd \cup {key} |-> IF k = key THEN t + COOLDOWN_DURATION ELSE cd[k]]

\* A key whose cooldown has not elapsed at time t.
Cooling(cd, t, key) == key \in DOMAIN cd /\ ~(t > cd[key])

KeySet == {keys[i] : i \in 1..Len(keys)}

\* KeyManager.__init__ with K configured credentials.
InitKeyManager ==
    /\ \E K \in 0..MaxKeys : keys = [i \in 1..K |-> Credential(i)]
    /\ current_index = 0
    /\ cooldowns = [k \in {} |-> 0]
    /\ now = 0
    /\ issued = <<>>
    /\ reported = FALSE
    /\ km_last = [op |-> "init", key |-> None, examined |-> 0]

GetNextKey ==
    /\ reported \/ Len(issued) < MaxCalls
    /\ \E r \in {get_next_key(keys, current_index, cooldowns, now)} :
        /\ current_index' = r.idx
        /\ cooldowns' = r.cd
        /\ issued' = IF reported THEN issued ELSE Append(issued, r.key)
        /\ km_last' = [op |-> "get_next_key", key |-> r.key, examined |-> r.examined]
    /\ UNCHANGED <<keys, now, reported, storeVars, auxVars>>

ReportRateLimit(key) ==
    /\ cooldowns' = report_rate_limit(cooldowns, now, key)
    /\ reported' = TRUE
    /\ issued' = <<>>
    /\ km_last' = [op |-> "report_rate_limit", key |-> key, examined |-> 0]
    /\ UNCHANGED <<keys, current_index, now, storeVars, auxVars>>

\* The clock advances by half a cooldown.
Tick ==
    /\ now < MaxTicks * (COOLDOWN_DURATION \div 2)
    /\ now' = now + COOLDOWN_DURATION \div 2
    /\ km_last' = [op |-> "tick", key |-> None, examined |-> 0]
    /\ UNCHANGED <<keys, current_index, cooldowns, issued, reported, storeVars,
                   auxVars>>

NextKeys ==
    \/ GetNextKey
    \/ \E key \in KeySet : ReportRateLimit(key)
    \/ Tick

InitKeys == InitStore /\ InitKeyManager /\ IdleAux

SpecKeys == InitKeys /\ [][NextKeys]_vars

-----------------------------------------------------------------------------
(* EmbeddingsClient.embed                                                  *)

\* What the provider does with one request: a 200 with the embedding's
\* values, a 200 without them, a 429, another status, or no response (a
\* timeout or transport error raised by httpx).
Responses == {"values", "no_values", "rate_limited", "error", "exception"}

\* The vector of a successful response.
EmbedVector == <<1, 0>>

\* embed from its entry to the request it posts: get_next_key, ValueError
\* when there is no key.  attempt counts the requests the outermost call has
\* posted (modulo MaxAttempts; the code keeps no such count).
embed_begin(ks, idx, cd, t, attempt) ==
    LET r == get_next_key(ks, idx, cd, t)
    IN  IF r.key = None
        THEN [call |-> [pc |-> "raised", api_key |-> None, ret |-> <<>>,
                        attempt |-> attempt, resp |-> "none"],
              idx |-> r.idx, cd |-> r.cd, examined |-> r.examined]
        ELSE [call |-> [pc |-> "requesting", api_key |-> r.key, ret |-> <<>>,
                        attempt |-> (attempt + 1) % MaxAttempts, resp |-> "none"],
              idx |-> r.idx, cd |-> r.cd, examined |-> r.examined]

\* embed after a 429: the key is reported, then embed is called again.
embed_again(call, ks, idx, cd, t) ==
    [embed_begin(ks, idx, report_rate_limit(cd, t, call.api_key), t, call.attempt)
        EXCEPT !.call.resp = "rate_limited"]

\* An embed that reports the key of every request that failed.
embed_response_ReportsFailures(call, resp, ks, idx, cd, t) ==
    CASE resp = "values" ->
            [call |-> [call EXCEPT !.pc = "returned", !.ret = EmbedVector,
                                   !.resp = resp],
             idx |-> idx, cd |-> cd, examined |-> 0]
      [] resp = "rate_limited" -> embed_again(call, ks, idx, cd, t)
      [] OTHER ->
            [call |-> [call EXCEPT !.pc = "returned", !.ret = <<>>, !.resp = resp],
             idx |-> idx, cd |-> report_rate_limit(cd, t, call.api_key), examined |-> 0]

\* embed from the response on: a 429 reports the key and calls embed again,
\* returning whatever that call returns; nothing ends the recursion but a
\* response of another kind.  resp keeps the kind of the last response.
embed_response(call, resp, ks, idx, cd, t) ==
    CASE resp = "values" ->
            [call |-> [call EXCEPT !.pc = "returned", !.ret = EmbedVector,
                                   !.resp = resp],
             idx |-> idx, cd |-> cd, examined |-> 0]
      [] resp = "rate_limited" -> embed_again(call, ks, idx, cd, t)
      [] OTHER ->
            [call |-> [call EXCEPT !.pc = "returned", !.ret = <<>>, !.resp = resp],
             idx |-> idx, cd |-> cd, examined |-> 0]

\* A caller awaits embed(text).
EmbedStart ==
    /\ embed_call.pc # "requesting"
    /\ \E r \in {embed_begin(keys, current_index, cooldowns, now, 0)} :
        /\ embed_call' = r.call
        /\ current_index' = r.idx
        /\ cooldowns' = r.cd
        /\ km_last' = [op |-> "get_next_key", key |-> r.call.api_key,
                       examined |-> r.examined]
    /\ UNCHANGED <<keys, now, issued, reported, storeVars,
                   chunk_call, contents, stats, idx_last, runVars>>

\* The provider answers the request in flight.
EmbedResponse(resp) ==
    /\ embed_call.pc = "requesting"
    /\ \E r \in {embed_response(embed_call, resp, keys, current_index, cooldowns, now)} :
        /\ embed_call' = r.call
        /\ current_index' = r.idx
        /\ cooldowns' = r.cd
        /\ km_last' = IF resp = "rate_limited"
                      THEN [op |-> "get_next_key", key |-> r.call.api_key,
                       examined |-> r.examined]
                      ELSE km_last
    /\ reported' = (reported \/ resp = "rate_limited")
    /\ UNCHANGED <<keys, now, issued, storeVars, chunk_call, contents, stats, idx_last,
                   runVars>>

EmbedAnswered == \E resp \in Responses : EmbedResponse(resp)

NextEmbed ==
    \/ EmbedStart
    \/ EmbedAnswered
    \/ Tick

InitEmbed == InitStore /\ InitKeyManager /\ IdleAux

\* Every request is answered (the request carries a timeout).
SpecEmbed == InitEmbed /\ [][NextEmbed]_vars /\ WF_vars(EmbedAnswered)

-----------------------------------------------------------------------------
(* CodebaseIndexer._chunk_code                                             *)

\* A file path is modelled by its pieces between dots ("a.py" is
\* <<"a", "py">>, "Makefile" is <<"Makefile">>), a text by its lines: the
\* sequence of the lengths of the pieces that split('\n') returns.
Lower(piece) ==
    CASE piece = "PY" -> "py"
      [] piece = "MD" -> "md"
      [] OTHER        -> piece

\* '.' + path.split('.')[-1].lower() if '.' in path else '' (without the dot)
Extension(path) == IF Len(path) > 1 THEN Lower(path[Len(path)]) ELSE ""

\* MultiLanguageParser.EXTENSION_MAP, its keys
EXTENSION_MAP ==
    {"py", "js", "jsx", "mjs", "ts", "tsx", "java", "c", "h", "cpp", "cc", "cxx",
     "hpp", "go", "rs"}

is_supported(file_path) == Extension(file_path) \in EXTENSION_MAP

\* len(content): the characters of the lines and the newlines between them.
RECURSIVE SumRange(_, _, _)
SumRange(lines, lo, hi) ==
    IF lo > hi THEN 0
    ELSE IF lo = hi THEN lines[lo]
    ELSE SumRange(lines, lo, (lo + hi) \div 2) + SumRange(lines, (lo + hi) \div 2 + 1, hi)

Chars(content) == SumRange(content, 1, Len(content)) + Len(content) - 1

FULL_FILE_LIMIT == 4000
chunk_size == 50

\* f"File: {file_path}\n\n{summary}" with a one-line summary.
get_summary(content, file_path) == <<16>>
SummaryContent(content, file_path) == <<10, 0>> \o get_summary(content, file_path)

SummaryChunks(file_path, content) ==
    IF is_supported(file_path)
    THEN <<[content |-> SummaryContent(content, file_path),
            type |-> "file_summary", name |-> file_path]>>
    ELSE <<>>

\* range(0, len(lines), chunk_size), as the 1-based number of each window
Windows(lines) == (Len(lines) + chunk_size - 1) \div chunk_size

\* The full_file chunk, or the code_chunk of every window of chunk_size
\* lines; a code_chunk is named path:L{i+1}-{i+len(chunk_lines)}.
FileChunks(file_path, content) ==
    IF Chars(content) < FULL_FILE_LIMIT
    THEN <<[content |-> content, type |-> "full_file", name |-> file_path]>>
    ELSE [w \in 1..Windows(content) |->
            LET i == (w - 1) * chunk_size
                chunk_lines == SubSeq(content, i + 1, Min(i + chunk_size, Len(content)))
            IN  [content |-> chunk_lines, type |-> "code_chunk",
                 name |-> <<file_path, i + 1, i + Len(chunk_lines)>>]]

\* A _chunk_code that appends the summary after the file's own chunks.
_chunk_code_SummaryLast(file_path, content) ==
    FileChunks(file_path, content) \o SummaryChunks(file_path, content)

_chunk_code(file_path, content) ==
    SummaryChunks(file_path, content) \o FileChunks(file_path, content)

\* The files _chunk_code is called on: paths of a recognised language, of
\* an unrecognised one and without extension; texts of n lines of one
\* width.  A text is held as content.split('\n') returns it, the width of
\* each piece: Text(n, w) is n lines joined by newlines, TerminatedText(n, w)
\* is n lines each ended by a newline, for which split returns one more,
\* empty, piece.
ChunkPaths == {<<"a", "py">>, <<"B", "PY">>, <<"notes", "md">>, <<"Makefile">>}
Widths == {0, 29, 30, 80}
Text(n, w) == [i \in 1..n |-> w]
TerminatedText(n, w) == Text(n, w) \o <<0>>
LineCounts == (1..MaxLines) \cup {LongFile}

\* A call of _chunk_code on the arguments held in chunk_call.
ChunkCode ==
    /\ ~chunk_call.called
    /\ chunk_call' = [chunk_call EXCEPT
                         !.called = TRUE,
                         !.chunks = _chunk_code(chunk_call.file_path, chunk_call.content)]
    /\ UNCHANGED <<storeVars, keyVars, embed_call, contents, stats, idx_last, runVars>>

NextChunk == ChunkCode

InitChunk ==
    /\ InitStore /\ IdleKeys /\ IdleIndexer /\ tasks = <<>> /\ IdleWriters
    /\ \E file_path \in ChunkPaths, n \in LineCounts, w \in Widths :
          \E text \in {Text(n, w), TerminatedText(n, w)} :
             chunk_call = [NoChunking EXCEPT !.file_path = file_path, !.content = text]

SpecChunk == InitChunk /\ [][NextChunk]_vars

\* Concurrent callers of embed on the shared key_manager.  The tasks of one
\* event loop switch only at an await: get_next_key has none, so a task
\* runs from the entry of embed to its post, and from the response to its
\* return or its next post, without another task running in between.
TaskStart(t) ==
    /\ tasks[t].pc # "requesting"
    /\ reported \/ Len(issued) < MaxCalls
    /\ \E r \in {embed_begin(keys, current_index, cooldowns, now, 0)} :
        /\ tasks' = [tasks EXCEPT ![t] = r.call]
        /\ current_index' = r.idx
        /\ cooldowns' = r.cd
        /\ issued' = IF reported THEN issued ELSE Append(issued, r.call.api_key)
        /\ km_last' = [op |-> "get_next_key", key |-> r.call.api_key,
                       examined |-> r.examined]
    /\ UNCHANGED <<keys, now, reported, storeVars, embed_call, chunk_call, contents,
                   stats, idx_last, visited, embed_batch, writers, dirs>>

TaskResponse(t, resp) ==
    /\ tasks[t].pc = "requesting"
    /\ \E r \in {embed_response(tasks[t], resp, keys, current_index, cooldowns, now)} :
        /\ tasks' = [tasks EXCEPT ![t] = r.call]
        /\ current_index' = r.idx
        /\ cooldowns' = r.cd
        /\ km_last' = IF resp = "rate_limited"
                      THEN [op |-> "get_next_key", key |-> r.call.api_key,
                            examined |-> r.examined]
                      ELSE km_last
    /\ reported' = (reported \/ resp = "rate_limited")
    /\ issued' = IF resp = "rate_limited" THEN <<>> ELSE issued
    /\ UNCHANGED <<keys, now, storeVars, embed_call, chunk_call, contents, stats,
                   idx_last, visited, embed_batch, writers, dirs>>

NextTasks ==
    \/ \E t \in 1..MaxTasks : TaskStart(t)
    \/ \E t \in 1..MaxTasks, resp \in Responses : TaskResponse(t, resp)

InitTasks ==
    /\ InitStore /\ InitKeyManager /\ Len(keys) > 0
    /\ IdleIndexer /\ chunk_call = NoChunking /\ IdleWriters
    /\ tasks = [t \in 1..MaxTasks |-> NoEmbed]

SpecTasks == InitTasks /\ [][NextTasks]_vars

-----------------------------------------------------------------------------
(* CodebaseIndexer: index_full and index_files                             *)

SUPPORTED_EXTENSIONS ==
    {"py", "js", "jsx", "mjs", "ts", "tsx", "java", "c", "h", "cpp", "cc", "cxx",
     "hpp", "go", "rs", "html", "css", "scss", "json", "yaml", "yml", "toml", "md"}

MAX_FILE_SIZE == 102400

SKIP_DIRS ==
    {"node_modules", "venv", ".venv", "__pycache__", ".git", "dist", "build",
     "target", ".idea", ".vscode", "vendor", "packages", ".next", ".nuxt"}

\* The decoded text of the content named c, as its lines.
TextOf(c) == IF c = "c1" THEN <<3>> ELSE <<3, 3>>

\* What the content provider lists: a file (its path, size, whether its
\* content can be fetched and decoded, and its content) or a directory
\* (its name, whether it can be listed, and its listing).
FileEntry(path, size, fetches, decodes, c) ==
    [type |-> "file", name |-> path[1], path |-> path, size |-> size,
     fetches |-> fetches, decodes |-> decodes, content |-> c, listing |-> <<>>]

DirEntry(name, fetches, listing) ==
    [type |-> "dir", name |-> name, path |-> <<name>>, size |-> 0,
     fetches |-> fetches, decodes |-> FALSE, content |-> "", listing |-> listing]

\* A stats counter that counts a failed file as skipped.
CountError_AsSkipped(st) == [st EXCEPT !.skipped = @ + 1]

CountError(st) == [st EXCEPT !.errors = @ + 1]
CountSkipped(st) == [st EXCEPT !.skipped = @ + 1]
\* An _index_file that stores a file without counting it.
CountIndexed_Uncounted(st) == st

CountIndexed(st) == [st EXCEPT !.indexed = @ + 1]

\* An ext check that passes every extension.
Unsupported_Never(path) == FALSE

Unsupported(path) == Extension(path) \notin SUPPORTED_EXTENSIONS
TooLarge(size) == size > MAX_FILE_SIZE

\* What one step of a run did: the store and stats it leaves, the embed
\* calls it made and the embeddings they returned, the entries it found.
StepResult(s, st, requests, embs, outcome) ==
    [st |-> s, stats |-> st, requests |-> requests, embs |-> embs,
     outcome |-> outcome, found |-> <<>>]

\* The chunks and embeddings that survive the filter of empty embeddings.
ValidPositions(embs) ==
    SelectSeq([i \in 1..Len(embs) |-> i], LAMBDA i : Len(embs[i]) > 0)

\* A filter that keeps as many chunks as embeddings survive, from the front.
ValidChunks_FromFront(chunks, embs) ==
    [j \in 1..Len(ValidPositions(embs)) |-> chunks[j]]

\* valid_chunks and valid_embeddings: the pairs of zip(chunks, embeddings)
\* whose embedding is not empty, in order.
ValidChunks(chunks, embs) ==
    [j \in 1..Len(ValidPositions(embs)) |-> chunks[ValidPositions(embs)[j]]]
ValidEmbeddings(embs) ==
    [j \in 1..Len(ValidPositions(embs)) |-> embs[ValidPositions(embs)[j]]]

\* _index_file.  provider is what embed does for the chunks of the file: it
\* raises (no API key), or returns values[i] (a vector or the empty list)
\* for chunk i.
_index_file(s, st, file_path, c, provider) ==
    LET chunks == _chunk_code(file_path, TextOf(c))
    IN  IF Len(chunks) = 0
        THEN StepResult(s, CountSkipped(st), 0, <<>>, "skipped")
        ELSE IF provider.raised
        THEN StepResult(s, CountError(st), 1, <<>>, "error")
        ELSE
          LET embs == [i \in 1..Len(chunks) |-> provider.values[i]]
              valid_chunks == ValidChunks(chunks, embs)
              valid_embeddings == ValidEmbeddings(embs)
          IN  IF Len(valid_chunks) > 0
              THEN LET r == add_chunks(s, file_path, valid_chunks, valid_embeddings,
                                       _compute_hash(c))
                   IN  IF r.outcome = "raised"
                       THEN StepResult(r.st, CountError(st), Len(chunks), embs, "error")
                       ELSE StepResult(r.st, CountIndexed(st), Len(chunks), embs, "indexed")
              ELSE StepResult(s, CountSkipped(st), Len(chunks), embs, "skipped")

\* The body of the loop of _process_contents for the entry e it popped.
_process_contents(s, st, e, provider) ==
    IF e.type = "dir"
    THEN [StepResult(s, st, 0, <<>>, "dir") EXCEPT
            !.found = IF e.name \notin SKIP_DIRS /\ e.fetches THEN e.listing ELSE <<>>]
    ELSE IF Unsupported(e.path) THEN StepResult(s, CountSkipped(st), 0, <<>>, "skipped")
    ELSE IF TooLarge(e.size) THEN StepResult(s, CountSkipped(st), 0, <<>>, "skipped")
    ELSE IF ~(e.fetches /\ e.decodes) THEN StepResult(s, CountError(st), 0, <<>>, "error")
    ELSE IF ~needs_update(s.file_hashes, e.path, e.content)
    THEN StepResult(s, CountSkipped(st), 0, <<>>, "skipped")
    ELSE _index_file(s, st, e.path, e.content, provider)

\* An index_files that indexes every path it can fetch, changed or not.
index_files_AlwaysIndexes(s, st, e, provider) ==
    IF ~(e.fetches /\ e.decodes) THEN StepResult(s, CountError(st), 0, <<>>, "error")
    ELSE _index_file(s, st, e.path, e.content, provider)

\* The body of the loop of index_files for the path of entry e.
index_files(s, st, e, provider) ==
    IF ~(e.fetches /\ e.decodes) THEN StepResult(s, CountError(st), 0, <<>>, "error")
    ELSE IF needs_update(s.file_hashes, e.path, e.content)
    THEN _index_file(s, st, e.path, e.content, provider)
    ELSE StepResult(s, CountSkipped(st), 0, <<>>, "skipped")

\* What embed does during one _index_file: it raises, or returns a vector
\* of the deployment's dimension or the empty list for each chunk, or
\* vectors of another dimension.
ChunkVector(i) == IF i = 1 THEN EmbedVector ELSE <<0, 1>>

Providers ==
    {[raised |-> TRUE, values |-> <<>>]}
        \cup {[raised |-> FALSE, values |-> v] :
                v \in {[i \in 1..MaxChunks |-> IF ok[i] THEN ChunkVector(i) ELSE <<>>] :
                          ok \in [1..MaxChunks -> BOOLEAN]}
                      \cup {[i \in 1..MaxChunks |-> <<1>>]}}

\* The files of the repository and of its directories.
RepoFiles ==
    {FileEntry(<<"a", "py">>, 10, TRUE, TRUE, "c1"),
     FileEntry(<<"a", "py">>, 10, TRUE, TRUE, "c2"),
     FileEntry(<<"notes", "MD">>, MAX_FILE_SIZE, TRUE, TRUE, "c1"),
     FileEntry(<<"big", "py">>, MAX_FILE_SIZE + 1, TRUE, TRUE, "c1"),
     FileEntry(<<"x", "bin">>, 10, TRUE, TRUE, "c1"),
     FileEntry(<<"Makefile">>, 10, TRUE, TRUE, "c1"),
     FileEntry(<<"bad", "py">>, 10, TRUE, FALSE, "c1"),
     FileEntry(<<"gone", "py">>, 10, FALSE, TRUE, "c1")}

RepoDirs ==
    {DirEntry("src", TRUE, <<FileEntry(<<"src/b", "py">>, 10, TRUE, TRUE, "c1")>>),
     DirEntry("node_modules", TRUE, <<FileEntry(<<"node_modules/m", "js">>, 10, TRUE, TRUE, "c1")>>),
     DirEntry("lost", FALSE, <<>>)}

\* Listings of at most MaxBatch entries of E with different paths.
Listings(E) ==
    {l \in UNION {[1..n -> E] : n \in 1..MaxBatch} :
        \A i, j \in 1..Len(l) : l[i].path = l[j].path => i = j}

\* What the run did with the entry e, r being the result of the iteration.
EntryDone(run, e, r) ==
    [run |-> run, type |-> e.type, path |-> e.path, size |-> e.size,
     fetches |-> e.fetches, decodes |-> e.decodes, content |-> e.content,
     raised |-> (r.requests > 0 /\ Len(r.embs) = 0),
     embs |-> r.embs, requests |-> r.requests, outcome |-> r.outcome]

\* One iteration of the loop of the run in progress.
ProcessEntry(provider) ==
    /\ Len(contents.queue) > 0
    /\ \E e \in {Head(contents.queue)} :
         \E r \in {IF contents.run = "index_full"
                   THEN _process_contents(Store, stats, e, provider)
                   ELSE index_files(Store, stats, e, provider)} :
            /\ SetStoreFields(r.st)
            /\ supplied' = Supplied(r.st.metadata, e.path, ValidEmbeddings(r.embs),
                                    r.outcome = "indexed")
            /\ stats' = r.stats
            /\ contents' = [contents EXCEPT !.queue = Tail(@) \o r.found]
            /\ idx_last' = EntryDone(contents.run, e, r)
    /\ UNCHANGED <<restarts, last, keyVars, embed_call, chunk_call, embed_batch, tasks,
                   writers, dirs>>

\* index_full up to _process_contents: the root listing, or the error that
\* ends the crawl when the root cannot be listed.
IndexFull(root) ==
    /\ Len(contents.queue) = 0 /\ contents.runs < MaxRuns
    /\ contents' = [run |-> "index_full",
                    queue |-> IF root.fetches THEN root.listing ELSE <<>>,
                    runs |-> contents.runs + 1, n |-> 0]
    /\ stats' = IF root.fetches THEN NoStats ELSE CountError(NoStats)
    /\ idx_last' = [NoEntry EXCEPT !.run = "index_full", !.type = "dir",
                                   !.fetches = root.fetches, !.outcome = "started"]
    /\ UNCHANGED <<storeVars, keyVars, embed_call, chunk_call, embed_batch, tasks,
                   writers, dirs>>

\* index_files(file_paths) up to its loop.
IndexFiles(file_paths) ==
    /\ Len(contents.queue) = 0 /\ contents.runs < MaxRuns
    /\ contents' = [run |-> "index_files", queue |-> file_paths,
                    runs |-> contents.runs + 1, n |-> Len(file_paths)]
    /\ stats' = NoStats
    /\ idx_last' = [NoEntry EXCEPT !.run = "index_files", !.outcome = "started"]
    /\ UNCHANGED <<storeVars, keyVars, embed_call, chunk_call, embed_batch, tasks,
                   writers, dirs>>

NextIndexer ==
    \/ \E provider \in Providers : ProcessEntry(provider) /\ UNCHANGED visited
    \/ \E l \in Listings(RepoFiles \cup RepoDirs), f \in BOOLEAN :
          IndexFull(DirEntry("", f, l)) /\ UNCHANGED visited
    \/ \E l \in Listings(RepoFiles) : IndexFiles(l) /\ UNCHANGED visited

SpecIndexer == Init /\ [][NextIndexer]_vars

\* A directory below the root: its path is not its name.
SubDir(path, name, fetches, listing) ==
    [DirEntry(name, fetches, listing) EXCEPT !.path = <<path>>]

\* Repositories as the content provider lists them: nested directories,
\* directories of the skip set at the root and below it, a directory whose
\* listing request fails, and an empty repository.
NestedTree ==
    <<FileEntry(<<"a", "py">>, 10, TRUE, TRUE, "c1"),
      DirEntry("src", TRUE,
          <<FileEntry(<<"src/b", "py">>, 10, TRUE, TRUE, "c1"),
            SubDir("src/build", "build", TRUE,
                <<FileEntry(<<"src/build/o", "js">>, 10, TRUE, TRUE, "c1")>>),
            SubDir("src/util", "util", TRUE,
                <<FileEntry(<<"src/util/u", "py">>, 10, TRUE, TRUE, "c1")>>)>>),
      DirEntry("node_modules", TRUE,
          <<FileEntry(<<"node_modules/m", "js">>, 10, TRUE, TRUE, "c1")>>)>>

UnlistedTree ==
    <<DirEntry("lost", FALSE, <<FileEntry(<<"lost/z", "py">>, 10, TRUE, TRUE, "c1")>>),
      FileEntry(<<"a", "py">>, 10, TRUE, TRUE, "c1")>>

FlatTree ==
    <<FileEntry(<<"x", "bin">>, 10, TRUE, TRUE, "c1"),
      DirEntry("docs", TRUE, <<FileEntry(<<"docs/notes", "md">>, 10, TRUE, TRUE, "c1")>>)>>

CrawlRoots ==
    {DirEntry("", TRUE, l) : l \in {NestedTree, UnlistedTree, FlatTree, <<>>}}
        \cup {DirEntry("", FALSE, NestedTree)}

\* embed during a crawl of these repositories: it raises, or returns a
\* vector for every chunk.
CrawlProviders ==
    {p \in Providers : p.raised \/ \A i \in 1..MaxChunks : Len(p.values[i]) = 2}

\* index_full, with the listing it started from kept.
Crawl(root) ==
    /\ IndexFull(root)
    /\ visited' = [root |-> IF root.fetches THEN root.listing ELSE <<>>, seen |-> <<>>]

\* One iteration of _process_contents, with the file it processed kept.
CrawlEntry(provider) ==
    /\ ProcessEntry(provider)
    /\ visited' = [visited EXCEPT
                      !.seen = IF Head(contents.queue).type = "dir" THEN @
                               ELSE Append(@, Head(contents.queue).path)]

NextCrawl ==
    \/ \E root \in CrawlRoots : Crawl(root)
    \/ \E provider \in CrawlProviders : CrawlEntry(provider)

SpecCrawl == Init /\ [][NextCrawl]_vars

-----------------------------------------------------------------------------
(* A run step by step: the embed calls of embed_batch one by one           *)

\* An embed_batch that sends the requests for all the texts at once.
InFlight_Gather(done, n) == (done + 1)..n

\* embed_batch: the requests in flight once done of the n texts were
\* answered (the loop awaits each embed before it calls the next).
InFlight(done, n) == IF done < n THEN {done + 1} ELSE {}

\* What embed does while a file is indexed: its first call raises, or the
\* calls return vectors of the stored dimension or of another one; each
\* call that returns can also return the empty list.
ProviderKinds == {"raises", "vectors", "other"}
Answers == {"vector", "empty"}
AnswerOf(i, answer, other) ==
    IF answer = "empty" THEN <<>>
    ELSE IF other THEN <<1>>
    ELSE ChunkVector(i)

\* The iteration of the run's loop on entry e.
LoopBody(run, s, st, e, provider) ==
    IF run = "index_full" THEN _process_contents(s, st, e, provider)
    ELSE index_files(s, st, e, provider)

\* The state an iteration leaves.
EndEntry(path, embs, r) ==
    /\ SetStoreFields(r.st)
    /\ supplied' = Supplied(r.st.metadata, path, ValidEmbeddings(embs),
                            r.outcome = "indexed")
    /\ stats' = r.stats

\* The run pops its next entry.  An entry that needs no embedding (a
\* directory, a skipped file, a fetch error) or whose first embed call
\* raises is done at once; for the others embed_batch sends its first
\* request.
BeginEntry(kind) ==
    /\ embed_batch.pc = "idle"
    /\ Len(contents.queue) > 0
    /\ \E e \in {Head(contents.queue)} :
         \E r \in {LoopBody(contents.run, Store, stats, e,
                            [raised |-> TRUE, values |-> <<>>])} :
            /\ contents' = [contents EXCEPT !.queue = Tail(@) \o r.found]
            /\ IF r.requests = 0 \/ kind = "raises"
               THEN /\ EndEntry(e.path, <<>>, r)
                    /\ idx_last' = EntryDone(contents.run, e, r)
                    /\ UNCHANGED embed_batch
               ELSE /\ embed_batch' =
                         [pc |-> "embedding", path |-> e.path, content |-> e.content,
                          n |-> Len(_chunk_code(e.path, TextOf(e.content))),
                          other |-> (kind = "other"),
                          inflight |-> InFlight(0, Len(_chunk_code(e.path, TextOf(e.content)))),
                          sent |-> <<1>>, embs |-> <<>>]
                    /\ idx_last' = [EntryDone(contents.run, e, r) EXCEPT
                                      !.requests = 0, !.outcome = "embedding"]
                    /\ UNCHANGED <<embeddings, metadata, file_hashes, disk_embeddings,
                                   disk_metadata, disk_hashes, supplied, stats>>
    /\ UNCHANGED <<restarts, last, keyVars, embed_call, chunk_call, visited, tasks,
                   writers, dirs>>

\* A request in flight is answered.  embed_batch sends the next one, or,
\* after the last, _index_file filters and stores and the iteration ends.
Receive(answer) ==
    /\ embed_batch.pc = "embedding"
    /\ \E i \in embed_batch.inflight :
         \E embs \in {Append(embed_batch.embs, AnswerOf(i, answer, embed_batch.other))} :
            IF Len(embs) < embed_batch.n
            THEN /\ embed_batch' =
                      [embed_batch EXCEPT
                          !.embs = embs,
                          !.inflight = InFlight(Len(embs), embed_batch.n),
                          !.sent = Append(@, Len(embs) + 1)]
                 /\ UNCHANGED <<embeddings, metadata, file_hashes, disk_embeddings,
                                disk_metadata, disk_hashes, supplied, stats, idx_last>>
            ELSE \E r \in {_index_file(Store, stats, embed_batch.path,
                                       embed_batch.content,
                                       [raised |-> FALSE, values |-> embs])} :
                    /\ EndEntry(embed_batch.path, embs, r)
                    /\ idx_last' = [idx_last EXCEPT !.embs = r.embs,
                                                    !.requests = r.requests,
                                                    !.outcome = r.outcome]
                    /\ embed_batch' = NoBatch
    /\ UNCHANGED <<restarts, last, keyVars, embed_call, chunk_call, contents, visited,
                   tasks, writers, dirs>>

\* The files an incremental batch or a flat crawl is given.
BatchFiles ==
    {FileEntry(<<"a", "py">>, 10, TRUE, TRUE, "c1"),
     FileEntry(<<"a", "py">>, 10, TRUE, TRUE, "c2"),
     FileEntry(<<"notes", "md">>, 10, TRUE, TRUE, "c1"),
     FileEntry(<<"gone", "py">>, 10, FALSE, TRUE, "c1")}

StartCrawl(root) == embed_batch.pc = "idle" /\ IndexFull(root) /\ UNCHANGED visited
StartBatch(file_paths) ==
    embed_batch.pc = "idle" /\ IndexFiles(file_paths) /\ UNCHANGED visited

NextSteps ==
    \/ \E l \in Listings(BatchFiles) : StartCrawl(DirEntry("", TRUE, l))
    \/ \E l \in Listings(BatchFiles) : StartBatch(l)
    \/ \E kind \in ProviderKinds : BeginEntry(kind)
    \/ \E answer \in Answers : Receive(answer)

SpecSteps == Init /\ [][NextSteps]_vars

-----------------------------------------------------------------------------
(* Indexing tasks launched by webhook events, each with its own VectorStore *)

\* A repository identifier, character by character.
RepoA == <<"a", "/", "b", "_", "c">>
RepoB == <<"a", "_", "b", "/", "c">>
RepoX == <<"x", "/", "y">>

\* VectorStore.__init__: repo_id.replace("/", "_") names the directory.
DirOf(repo_id) == [i \in 1..Len(repo_id) |-> IF repo_id[i] = "/" THEN "_" ELSE repo_id[i]]

\* The artifacts of the directory of repo_id (none when it was never written).
ArtifactsOf(d, repo_id) ==
    IF DirOf(repo_id) \in DOMAIN d THEN d[DirOf(repo_id)] ELSE NoArtifacts

NoWriter ==
    [pc |-> "idle", repo_id |-> <<>>, run |-> "none", queue |-> <<>>, stats |-> NoStats,
     indexed |-> {}, embeddings |-> <<>>, metadata |-> <<>>, file_hashes |-> EmptyHashes]

\* The store of a task: its own memory over the artifacts of its directory.
StoreOf(w) ==
    [embeddings |-> w.embeddings, metadata |-> w.metadata, file_hashes |-> w.file_hashes,
     disk_embeddings |-> ArtifactsOf(dirs, w.repo_id).embeddings,
     disk_metadata |-> ArtifactsOf(dirs, w.repo_id).metadata,
     disk_hashes |-> ArtifactsOf(dirs, w.repo_id).hashes]

\* The directories after a task of repo_id left the store s.
WriteDir(d, repo_id, s) ==
    [x \in DOMAIN d \cup {DirOf(repo_id)} |->
        IF x = DirOf(repo_id)
        THEN [embeddings |-> s.disk_embeddings, metadata |-> s.disk_metadata,
              hashes |-> s.disk_hashes]
        ELSE d[x]]

\* background_tasks.add_task: a task is started for every event.
CanLaunch(t, repo_id) == writers[t].pc = "idle"

\* index_repository or _update_index up to the loop of the run: a
\* CodebaseIndexer is constructed, which loads a VectorStore of its own
\* from the directory of the repository.
Launch(t, repo_id, run, entries) ==
    /\ CanLaunch(t, repo_id)
    /\ writers' = [writers EXCEPT ![t] =
          [NoWriter EXCEPT
              !.pc = "running", !.repo_id = repo_id, !.run = run, !.queue = entries,
              !.embeddings = _load_embeddings(ArtifactsOf(dirs, repo_id).embeddings),
              !.metadata = _load_metadata(ArtifactsOf(dirs, repo_id).metadata),
              !.file_hashes = _load_hashes(ArtifactsOf(dirs, repo_id).hashes)]]
    /\ UNCHANGED <<storeVars, keyVars, embed_call, chunk_call, contents, stats, idx_last,
                   visited, embed_batch, tasks, dirs>>

\* One iteration of the loop of task t, from one await to the next.
WriterStep(t, provider) ==
    /\ writers[t].pc = "running"
    /\ \E e \in {Head(writers[t].queue)} :
         \E r \in {LoopBody(writers[t].run, StoreOf(writers[t]), writers[t].stats, e,
                            provider)} :
            /\ writers' = [writers EXCEPT ![t] =
                  [@ EXCEPT
                      !.pc = IF Len(Tail(writers[t].queue) \o r.found) = 0
                             THEN "done" ELSE "running",
                      !.queue = Tail(@) \o r.found,
                      !.stats = r.stats,
                      !.indexed = IF r.outcome = "indexed" THEN @ \cup {e.path} ELSE @,
                      !.embeddings = r.st.embeddings,
                      !.metadata = r.st.metadata,
                      !.file_hashes = r.st.file_hashes]]
            /\ dirs' = IF r.st = StoreOf(writers[t]) THEN dirs
                       ELSE WriteDir(dirs, writers[t].repo_id, r.st)
    /\ UNCHANGED <<storeVars, keyVars, embed_call, chunk_call, contents, stats, idx_last,
                   visited, embed_batch, tasks>>

\* The files of the repositories.
WriterFiles ==
    {FileEntry(<<"a", "py">>, 10, TRUE, TRUE, "c1"),
     FileEntry(<<"b", "py">>, 10, TRUE, TRUE, "c1"),
     FileEntry(<<"b", "py">>, 10, TRUE, TRUE, "c2")}

Runs == {"index_full", "index_files"}

InitWriters ==
    /\ InitStore /\ IdleKeys /\ IdleIndexer /\ chunk_call = NoChunking /\ tasks = <<>>
    /\ writers = [t \in 1..MaxWriters |-> NoWriter]
    /\ dirs = <<>>

\* Tasks of one repository: a full index and incremental ones.
NextWriters ==
    \/ \E t \in 1..MaxWriters, run \in Runs, l \in Listings(WriterFiles) :
          Launch(t, RepoX, run, l)
    \/ \E t \in 1..MaxWriters, provider \in CrawlProviders : WriterStep(t, provider)

SpecWriters == InitWriters /\ [][NextWriters]_vars

\* Tasks of several repositories.
NextRepos ==
    \/ \E t \in 1..MaxWriters, repo_id \in {RepoA, RepoB, RepoX},
          l \in Listings(WriterFiles) : Launch(t, repo_id, "index_files", l)
    \/ \E t \in 1..MaxWriters, provider \in CrawlProviders : WriterStep(t, provider)

SpecRepos == InitWriters /\ [][NextRepos]_vars

-----------------------------------------------------------------------------
(* Successive runs of index_files, as _update_index launches them          *)

\* The files of the pull requests: a file in two versions, another file,
\* and a path that cannot be fetched.
RerunFiles ==
    {FileEntry(<<"a", "py">>, 10, TRUE, TRUE, "c1"),
     FileEntry(<<"a", "py">>, 10, TRUE, TRUE, "c2"),
     FileEntry(<<"b", "py">>, 10, TRUE, TRUE, "c1"),
     FileEntry(<<"gone", "py">>, 10, FALSE, TRUE, "c1")}

\* index_files(file_paths), with the paths of the run and the paths and
\* counters of the run before it kept.
Rerun(file_paths) ==
    /\ IndexFiles(file_paths)
    /\ visited' = [root |-> file_paths,
                   seen |-> <<[paths |-> visited.root, stats |-> stats]>>]

\* One iteration of the loop of index_files.
RerunEntry(provider) ==
    /\ ProcessEntry(provider)
    /\ UNCHANGED visited

\* The CodebaseIndexer of the next _update_index: get_vector_store loads
\* the artifacts of the repository again.
FreshIndexer ==
    /\ Len(contents.queue) = 0
    /\ Reopen

NextRerun ==
    \/ \E l \in Listings(RerunFiles) : Rerun(l)
    \/ \E provider \in Providers : RerunEntry(provider)
    \/ FreshIndexer

SpecRerun == Init /\ [][NextRerun]_vars

-----------------------------------------------------------------------------
(* Properties of VectorStore                                               *)

RecordsOf(meta, path) == SelectSeq(meta, LAMBDA m : m.file_path = path)
RecordsNotOf(meta, path) == SelectSeq(meta, LAMBDA m : m.file_path # path)
HashesNotOf(hashes, path) == [p \in DOMAIN hashes \ {path} |-> hashes[p]]

\* C1: in every state reached by add_chunks (with equally long lists, or an
\* empty one) and delete_file on one store, the matrix has as many rows as
\* the metadata list has records, and row i is the embedding that was
\* supplied with metadata record i.
C1_Alignment ==
    /\ Len(embeddings) = Len(metadata)
    /\ \A i \in 1..Len(metadata) : embeddings[i] = supplied[metadata[i].id]

\* C1 witness: delete_file removed the chunks in front of two chunks that
\* were supplied with different embeddings.
C1_Witness ==
    /\ last.op = "delete_file" /\ last.replaced
    /\ Len(metadata) = 2
    /\ embeddings[1] # embeddings[2]
    /\ metadata[1].file_path # last.path

\* C2: between store operations, a file has a hash entry if and only if at
\* least one chunk record has its file_path.
C2_HashChunkCoupling ==
    \A p \in Files : (p \in DOMAIN file_hashes) <=> (Len(RecordsOf(metadata, p)) > 0)

\* C3 as stated: after add_chunks(path, chunks, emb, hash(c)) returned,
\* needs_update(path, c) is false and needs_update(path, c') is true for
\* every other content c'; needs_update is true for a path with no hash.
C3_Original ==
    /\ (last.op = "add_chunks" /\ last.outcome # "raised") =>
          /\ ~needs_update(file_hashes, last.path, last.content)
          /\ \A c \in Contents \ {last.content} : needs_update(file_hashes, last.path, c)
    /\ \A p \in Files \ DOMAIN file_hashes, c \in Contents : needs_update(file_hashes, p, c)

\* C3 amended: after an add_chunks(path, chunks, emb, hash(c)) with two
\* non-empty lists, needs_update(path, c') is true exactly for the contents
\* c' whose hash differs from hash(c), so it is false for c; needs_update is
\* true for a path with no stored hash.
C3_Freshness ==
    /\ (last.op = "add_chunks" /\ last.outcome = "ok") =>
          \A c \in Contents :
              needs_update(file_hashes, last.path, c)
                  <=> (_compute_hash(c) # _compute_hash(last.content))
    /\ \A p \in Files \ DOMAIN file_hashes, c \in Contents : needs_update(file_hashes, p, c)

\* C3 witness: a file was stored while the other file has no hash, and the
\* contents cover an equal and a different hash.
C3_Witness ==
    /\ last.op = "add_chunks" /\ last.outcome = "ok" /\ last.content = "c1"
    /\ Files \ DOMAIN file_hashes # {}
    /\ ~needs_update(file_hashes, last.path, "c1")
    /\ needs_update(file_hashes, last.path, "c2")

\* C4: an add_chunks that re-indexes an indexed file with M new chunks
\* leaves exactly the M new chunk records for that file, the total becomes
\* (total before) - (previous count of the file) + M, and the records of the
\* other files are unchanged.
C4_ReplaceWholesale ==
    [][(last'.op = "add_chunks" /\ last'.outcome = "ok"
          /\ Len(RecordsOf(metadata, last'.path)) > 0) =>
        /\ RecordsOf(metadata', last'.path)
              = NewMetadata(last'.path, MakeChunks(last'.path, last'.content, last'.n))
        /\ Len(metadata')
              = Len(metadata) - Len(RecordsOf(metadata, last'.path)) + last'.n
        /\ RecordsNotOf(metadata', last'.path) = RecordsNotOf(metadata, last'.path)
      ]_vars

\* C4 witness: a file was re-indexed with another content and another
\* number of chunks while the other file is indexed.
C4_Witness ==
    /\ last.op = "add_chunks" /\ last.outcome = "ok" /\ last.replaced
    /\ last.n = 1 /\ last.content = "c2"
    /\ Len(metadata) = 3

\* C5: a delete_file(path) on an indexed path leaves no chunk record of
\* path, no query result that references path, no hash entry for path, one
\* indexed file less, and the chunks and hashes of the other files as they
\* were.
C5_DeleteFile ==
    [][(last'.op = "delete_file" /\ last'.outcome = "ok"
          /\ last'.path \in DOMAIN file_hashes) =>
        /\ Len(RecordsOf(metadata', last'.path)) = 0
        /\ \A q \in QueryVectors, k \in 0..MaxK, filter \in Filters :
              \A r \in {query(embeddings', metadata', q, k, filter)} :
                  \A j \in 1..Len(r.ret) : r.ret[j].metadata.file_path # last'.path
        /\ last'.path \notin DOMAIN file_hashes'
        /\ get_stats(metadata', file_hashes').indexed_files
              = get_stats(metadata, file_hashes).indexed_files - 1
        /\ RecordsNotOf(metadata', last'.path) = RecordsNotOf(metadata, last'.path)
        /\ HashesNotOf(file_hashes', last'.path) = HashesNotOf(file_hashes, last'.path)
      ]_vars

\* C5 witness: an indexed file was deleted, the other file is still indexed
\* and a query returns its chunks.
C5_Witness ==
    /\ last.op = "delete_file" /\ last.outcome = "ok" /\ last.replaced
    /\ Cardinality(DOMAIN file_hashes) = 1
    /\ Len(query(embeddings, metadata, <<1, 0>>, MaxK, NoFilter).ret) > 0

-----------------------------------------------------------------------------
(* Properties of query                                                     *)

\* The metadata index of a returned result.
IndexOfId(meta, id) == CHOOSE i \in 1..Len(meta) : meta[i].id = id

\* What C6 says of one returned list: min(k, candidates) results, the
\* results the candidates' own records and distances, by non-decreasing
\* distance, and no candidate left out more similar than a returned one.
RankedTopK(ret, q, k, filter) ==
    LET valid == ValidIndices(metadata, filter)
        cand == {valid[j] : j \in 1..Len(valid)}
        got == {IndexOfId(metadata, ret[j].id) : j \in 1..Len(ret)}
    IN  /\ Len(ret) = Min(k, Len(valid))
        /\ got \subseteq cand
        /\ Cardinality(got) = Len(ret)
        /\ \A j \in 1..Len(ret) :
              ret[j].distance
                  = Distance(Similarity(embeddings[IndexOfId(metadata, ret[j].id)], q))
        /\ \A j \in 1..(Len(ret) - 1) : DistLeq(ret[j].distance, ret[j + 1].distance)
        /\ \A i \in cand \ got : \A j \in 1..Len(ret) :
              ~SimGreater(Similarity(embeddings[i], q), ret[j].distance.one_minus)

\* C6 as stated: every query(embedding, k) returns min(k, number of
\* candidate chunks) results by non-increasing similarity, no chunk left out
\* more similar than a returned one.
C6_Original ==
    (last.op = "query" /\ last.outcome = "ok") =>
        RankedTopK(last.ret, last.q, last.k, last.filter)

\* C6 amended: a query with a non-empty embedding returns min(k, number of
\* candidate chunks) results by non-increasing similarity (non-decreasing
\* distance), no candidate left out more similar than a returned one; a
\* query with an empty embedding returns nothing.
C6_RankedTopK ==
    (last.op = "query" /\ last.outcome = "ok") =>
        IF Len(last.q) > 0
        THEN RankedTopK(last.ret, last.q, last.k, last.filter)
        ELSE last.ret = <<>>

\* C6 witness: a query cut four candidates of different similarity to two.
C6_Witness ==
    /\ last.op = "query" /\ last.k = 2 /\ last.filter = NoFilter
    /\ Len(metadata) = 4
    /\ Len(last.ret) = 2
    /\ ~DistLeq(last.ret[2].distance, last.ret[1].distance)
    /\ \E i \in 1..Len(metadata) :
          SimGreater(last.ret[2].distance.one_minus, Similarity(embeddings[i], last.q))

-----------------------------------------------------------------------------
(* Properties of persistence                                               *)

\* C7: re-opening the store from its directory reproduces get_stats().
C7_StatsRoundTrip ==
    [][last'.op = "reopen" =>
          get_stats(metadata', file_hashes') = get_stats(metadata, file_hashes)]_vars

\* C7 witness: a re-opened store reports the two chunks of its one indexed
\* file.
C7_Witness ==
    /\ last.op = "reopen" /\ restarts = 1
    /\ get_stats(metadata, file_hashes).total_chunks = 2
    /\ get_stats(metadata, file_hashes).indexed_files = 1

\* C8: whenever add_chunks or delete_file has returned, the three persisted
\* artifacts hold the in-memory matrix, metadata list and hash map (a store
\* re-opened from them holds the same index).
C8_PersistedEqualsMemory ==
    (last.op \in {"add_chunks", "delete_file"} /\ last.outcome # "raised") =>
        /\ _load_embeddings(disk_embeddings) = embeddings
        /\ _load_metadata(disk_metadata) = metadata
        /\ _load_hashes(disk_hashes) = file_hashes

-----------------------------------------------------------------------------
(* Properties of KeyManager                                                *)

\* C9: with K credentials and no rate-limit report, call n of get_next_key
\* returns credential (n mod K) counted from the cursor's start, so any K
\* consecutive calls return each credential exactly once.
C9_RoundRobin ==
    (~reported /\ Len(keys) > 0) =>
        /\ \A n \in 1..Len(issued) : issued[n] = keys[((n - 1) % Len(keys)) + 1]
        /\ \A n \in 1..(Len(issued) - Len(keys) + 1) :
              /\ {issued[j] : j \in n..(n + Len(keys) - 1)} = KeySet
              /\ \A i, j \in n..(n + Len(keys) - 1) : issued[i] = issued[j] => i = j

\* C9 witness: more than K calls on three credentials, nothing reported.
C9_Witness ==
    /\ ~reported /\ Len(keys) = 3 /\ Len(issued) = 5
    /\ km_last.op = "get_next_key"

\* C10 as stated: a get_next_key call never returns a credential whose
\* cooldown has not elapsed when the call is made.
C10_Original ==
    [][km_last'.op = "get_next_key" =>
          ~Cooling(cooldowns, now, km_last'.key)]_vars

\* C10 amended: a get_next_key call returns a credential whose cooldown has
\* not elapsed when the call is made (up to and including the instant the
\* cooldown ends) only if every configured credential is cooling down.
C10_CoolingNotReturned ==
    [][(km_last'.op = "get_next_key" /\ Cooling(cooldowns, now, km_last'.key)) =>
          \A k \in KeySet : Cooling(cooldowns, now, k)]_vars

\* C10 witness: get_next_key passed over a cooling credential at the instant
\* its cooldown ends and returned a ready one.
C10_Witness ==
    /\ km_last.op = "get_next_key" /\ km_last.examined = 2
    /\ ~Cooling(cooldowns, now, km_last.key)
    /\ \E k \in KeySet : Cooling(cooldowns, now, k) /\ now = cooldowns[k]

\* C11: when every configured credential is cooling down, get_next_key still
\* returns a credential, and it is the one at the cursor's position when the
\* call started (the next one in round-robin order).
C11_AllCoolingReturnsNext ==
    [][(km_last'.op = "get_next_key" /\ Len(keys) > 0
          /\ \A k \in KeySet : Cooling(cooldowns, now, k)) =>
        /\ km_last'.key \in KeySet
        /\ km_last'.key = keys[current_index + 1]]_vars


-----------------------------------------------------------------------------
(* Properties of EmbeddingsClient                                          *)

\* C12: an embed call whose requests are answered with a rate-limit status
\* retries a bounded number of times and then returns: every embed call
\* that has a request in flight eventually returns.
C12_BoundedRetry ==
    (embed_call.pc = "requesting") ~> (embed_call.pc = "returned")

-----------------------------------------------------------------------------
(* Properties of CodebaseIndexer._chunk_code                               *)

ChunkTypes(chunks) == [i \in 1..Len(chunks) |-> chunks[i].type]
ChunkLines(chunks) == [i \in 1..Len(chunks) |-> Len(chunks[i].content)]

\* A file of a recognised language under 4000 characters yields exactly a
\* file_summary chunk and then a full_file chunk.
SmallFileChunks ==
    (chunk_call.called /\ is_supported(chunk_call.file_path)
        /\ Chars(chunk_call.content) < FULL_FILE_LIMIT) =>
        ChunkTypes(chunk_call.chunks) = <<"file_summary", "full_file">>

-----------------------------------------------------------------------------
(* Properties of CodebaseIndexer                                           *)

RowsNotOf(emb, meta, path) ==
    [j \in 1..Len(KeepIndices(meta, path)) |-> emb[KeepIndices(meta, path)[j]]]

\* The step is one iteration of a run's loop on a file.
FileStep == idx_last' # idx_last /\ idx_last'.type = "file"

\* The ways the file of the step failed: its content could not be fetched
\* or decoded (in a crawl this is tried only for a file of a supported
\* extension and size), an embed call raised or returned the empty list,
\* or add_chunks raised.
FetchFailed ==
    /\ ~(idx_last'.fetches /\ idx_last'.decodes)
    /\ idx_last'.run = "index_full" =>
          (Extension(idx_last'.path) \in SUPPORTED_EXTENSIONS
              /\ idx_last'.size <= MAX_FILE_SIZE)
EmbedRaised == idx_last'.requests > 0 /\ idx_last'.raised
EmbedEmpty == \E i \in 1..Len(idx_last'.embs) : idx_last'.embs[i] = <<>>
StoreFailed == idx_last'.outcome = "error" /\ Len(idx_last'.embs) > 0

\* The run goes on with the next entry and the index entries of the other
\* files are as they were.
BatchGoesOn ==
    /\ contents'.queue = Tail(contents.queue)
    /\ contents'.run = contents.run
    /\ RecordsNotOf(metadata', idx_last'.path) = RecordsNotOf(metadata, idx_last'.path)
    /\ RowsNotOf(embeddings', metadata', idx_last'.path)
          = RowsNotOf(embeddings, metadata, idx_last'.path)
    /\ HashesNotOf(file_hashes', idx_last'.path) = HashesNotOf(file_hashes, idx_last'.path)

CountedAsError == stats' = [stats EXCEPT !.errors = @ + 1]

\* C13 as stated: when fetching, decoding, embedding or storing a file of a
\* crawl or batch fails, the run goes on with the next entry, the failure is
\* counted in errors and the index entries of the other files are untouched.
C13_Original ==
    [][(FileStep /\ (FetchFailed \/ EmbedRaised \/ EmbedEmpty \/ StoreFailed)) =>
          (BatchGoesOn /\ CountedAsError)]_vars

\* C13 amended: when fetching, decoding, embedding or storing a file of a
\* crawl or batch fails, the run goes on with the next entry and the index
\* entries of the other files are untouched; the failure is counted in
\* errors when it is an exception (fetch, decode, an embed call that raises,
\* add_chunks), while an embed call that returns the empty list only drops
\* its chunk: the file is then counted as skipped when no chunk survives and
\* as indexed when one does and is stored.
C13_FailureIsolated ==
    [][(FileStep /\ (FetchFailed \/ EmbedRaised \/ EmbedEmpty \/ StoreFailed)) =>
          /\ BatchGoesOn
          /\ (FetchFailed \/ EmbedRaised \/ StoreFailed) => CountedAsError
          /\ (EmbedEmpty /\ ~StoreFailed) =>
                IF \A i \in 1..Len(idx_last'.embs) : idx_last'.embs[i] = <<>>
                THEN stats' = [stats EXCEPT !.skipped = @ + 1]
                ELSE stats' = [stats EXCEPT !.indexed = @ + 1]]_vars

\* C13 witness: add_chunks raised for a file of a batch while another file
\* is indexed and an entry of the batch is still to be processed.
C13_Witness ==
    /\ idx_last.run = "index_files" /\ idx_last.type = "file"
    /\ idx_last.outcome = "error" /\ Len(idx_last.embs) > 0
    /\ stats.errors = 1
    /\ Len(metadata) > 0
    /\ Len(contents.queue) > 0

\* The file of a crawl's step caused embed calls or a store mutation.
CrawlActed ==
    \/ idx_last'.requests > 0
    \/ <<embeddings, metadata, file_hashes, disk_embeddings, disk_metadata, disk_hashes>>'
          # <<embeddings, metadata, file_hashes, disk_embeddings, disk_metadata, disk_hashes>>

\* The file of a crawl's step fails one of the three checks (needs_update
\* is asked of a content that was fetched and decoded).
CrawlIneligible ==
    \/ Extension(idx_last'.path) \notin SUPPORTED_EXTENSIONS
    \/ idx_last'.size > MAX_FILE_SIZE
    \/ (idx_last'.fetches /\ idx_last'.decodes
          /\ ~needs_update(file_hashes, idx_last'.path, idx_last'.content))

\* C15: in a full crawl a file causes embedding requests or a store mutation
\* only if its extension is supported, its size is at most 100 KB and
\* needs_update reports a change; a file failing one of the checks is counted
\* as skipped, not as an error, causes no embedding request and leaves the
\* store and its artifacts unchanged.
C15_CrawlEligibility ==
    [][(FileStep /\ idx_last'.run = "index_full") =>
          /\ CrawlActed =>
                /\ Extension(idx_last'.path) \in SUPPORTED_EXTENSIONS
                /\ idx_last'.size <= MAX_FILE_SIZE
                /\ needs_update(file_hashes, idx_last'.path, idx_last'.content)
          /\ CrawlIneligible =>
                /\ stats' = [stats EXCEPT !.skipped = @ + 1]
                /\ idx_last'.requests = 0
                /\ ~CrawlActed]_vars

\* C15 witness: a crawl skipped an indexed file whose content is unchanged,
\* after it indexed a file of exactly the size limit.
C15_Witness ==
    /\ idx_last.run = "index_full" /\ idx_last.type = "file"
    /\ idx_last.outcome = "skipped" /\ idx_last.requests = 0
    /\ idx_last.path \in DOMAIN file_hashes
    /\ ~needs_update(file_hashes, idx_last.path, idx_last.content)
    /\ <<"notes", "MD">> \in DOMAIN file_hashes

-----------------------------------------------------------------------------
(* Frame conditions and ordering                                           *)

\* C16: an add_chunks call with an empty chunk list or an empty embedding
\* list changes nothing: the metadata list, the matrix, the hash map and the
\* three artifacts are as before, the path's chunks and hash included.
C16_AddEmptyNoOp ==
    [][(last'.op = "add_chunks" /\ (last'.n = 0 \/ last'.m = 0)) =>
          UNCHANGED <<embeddings, metadata, file_hashes,
                      disk_embeddings, disk_metadata, disk_hashes>>]_vars

\* C16 witness: add_chunks was called with a chunk and no embedding on a
\* path that has two chunks and a hash.
C16_Witness ==
    /\ last.op = "add_chunks" /\ last.n = 1 /\ last.m = 0
    /\ last.path \in DOMAIN file_hashes
    /\ ChunkCount(metadata, last.path) = 2

\* C17: delete_file on a path that is not indexed (no hash entry) leaves
\* the metadata list, the matrix and the hash map unchanged.
C17_DeleteUnindexedNoOp ==
    [][(last'.op = "delete_file" /\ last'.path \notin DOMAIN file_hashes) =>
          UNCHANGED <<embeddings, metadata, file_hashes>>]_vars

\* C17 witness: delete_file was called on a path that is not indexed while
\* the other file is.
C17_Witness ==
    /\ last.op = "delete_file" /\ ~last.replaced
    /\ last.path \notin DOMAIN file_hashes
    /\ Len(metadata) = 2 /\ Len(embeddings) = 2

SameSim(s1, s2) == ~SimGreater(s1, s2) /\ ~SimGreater(s2, s1)

\* C18: among the candidates of a query that have equal similarity, the
\* results are in metadata order, and a candidate left out of the top k is
\* later in the metadata list than every returned one it ties with.
C18_StableTies ==
    (last.op = "query" /\ last.outcome = "ok") =>
        LET valid == ValidIndices(metadata, last.filter)
            got == {IndexOfId(metadata, last.ret[j].id) : j \in 1..Len(last.ret)}
        IN  /\ \A j1, j2 \in 1..Len(last.ret) :
                  (j1 < j2 /\ SameSim(last.ret[j1].distance.one_minus,
                                      last.ret[j2].distance.one_minus)) =>
                      IndexOfId(metadata, last.ret[j1].id)
                          < IndexOfId(metadata, last.ret[j2].id)
            /\ \A v \in 1..Len(valid) : \A j \in 1..Len(last.ret) :
                  (valid[v] \notin got
                      /\ SameSim(Similarity(embeddings[valid[v]], last.q),
                                 last.ret[j].distance.one_minus)) =>
                      IndexOfId(metadata, last.ret[j].id) < valid[v]

\* C18 witness: a query for one result returned the earlier of two chunks
\* of equal, positive similarity: the tie straddles the cut.
C18_Witness ==
    /\ last.op = "query" /\ last.k = 1 /\ Len(last.ret) = 1
    /\ \E i \in 1..Len(metadata) :
          /\ i > IndexOfId(metadata, last.ret[1].id)
          /\ SameSim(Similarity(embeddings[i], last.q), last.ret[1].distance.one_minus)
          /\ SimGreater(last.ret[1].distance.one_minus, Similarity(<<0, 1>>, <<1, 0>>))

\* v is a positive multiple of q (the Cauchy-Schwarz equality).
Parallel(v, q) == Dot(v, q) > 0 /\ Dot(v, q) * Dot(v, q) = Dot(v, v) * Dot(q, q)

\* The candidates of the last query whose stored vector is the query vector.
Identical ==
    {i \in {ValidIndices(metadata, last.filter)[v] :
              v \in 1..Len(ValidIndices(metadata, last.filter))} :
        embeddings[i] = last.q}

\* A candidate of the last query whose vector is a longer positive multiple
\* of the query vector.
LongerParallel ==
    \E v \in 1..Len(ValidIndices(metadata, last.filter)) :
        LET i == ValidIndices(metadata, last.filter)[v]
        IN  Parallel(embeddings[i], last.q) /\ Norm(embeddings[i]) > Norm(last.q)

\* "distance approximately 0": at most the distance of the query vector to
\* itself, 1 - n^2 / (n + eps)^2.
NearZero(d) == DistLeq(d, Distance(Similarity(last.q, last.q)))

\* A query for at least one result with the vector of a candidate chunk.
IdenticalQueried ==
    /\ last.op = "query" /\ last.outcome = "ok" /\ last.k >= 1
    /\ Len(last.q) > 0 /\ Identical # {}

C20_UniqueIds ==
    /\ \A i, j \in 1..Len(metadata) : metadata[i].id = metadata[j].id => i = j
    /\ \A i \in 1..Len(metadata) :
          metadata[i].id = <<metadata[i].file_path, metadata[i].chunk_index>>
    /\ \A p \in Files :
          {RecordsOf(metadata, p)[i].chunk_index : i \in 1..Len(RecordsOf(metadata, p))}
              = 0..(Len(RecordsOf(metadata, p)) - 1)

\* C20 witness: a file was re-indexed with two chunks while the other file
\* has two chunks.
C20_Witness ==
    /\ last.op = "add_chunks" /\ last.outcome = "ok" /\ last.replaced /\ last.n = 2
    /\ Len(metadata) = 4

\* What a loader must return for an artifact: the stored value when it is
\* readable, the empty value otherwise.
Readable(art) == art.status = "ok"

\* C21: opening a store never fails because of the persisted data: whatever
\* subset of the three artifacts is missing or unreadable, the constructor
\* returns, each unreadable or missing artifact is loaded as empty (no rows,
\* no records, no hashes) and each readable one as it was stored.
C21_OpenNeverFails ==
    [][last'.op = "reopen" =>
        /\ last'.outcome = "ok"
        /\ embeddings' = IF Readable(disk_embeddings) THEN disk_embeddings.data ELSE <<>>
        /\ metadata' = IF Readable(disk_metadata) THEN disk_metadata.data ELSE <<>>
        /\ file_hashes' = IF Readable(disk_hashes) THEN disk_hashes.data
                          ELSE EmptyHashes
        /\ UNCHANGED <<disk_embeddings, disk_metadata, disk_hashes>>]_vars

\* A store reopened on a directory whose hash map is unreadable and whose
\* metadata is gone while the matrix reads back: the rows are loaded, the
\* records and the hashes are empty.
C21_Witness ==
    /\ last.op = "reopen"
    /\ disk_hashes.status = "corrupt" /\ DOMAIN disk_hashes.data # {}
    /\ disk_metadata.status = "missing"
    /\ disk_embeddings.status = "ok"
    /\ Len(embeddings) > 0 /\ metadata = <<>> /\ file_hashes = EmptyHashes

\* The files of a listing that can be reached without entering a directory
\* of the skip set, and those that lie in or below such a directory.
RECURSIVE ReachableFiles(_)
ReachableFiles(listing) ==
    IF listing = <<>> THEN {}
    ELSE LET e == Head(listing)
         IN  (IF e.type # "dir" THEN {e.path}
              ELSE IF e.name \in SKIP_DIRS THEN {}
              ELSE ReachableFiles(e.listing))
                 \cup ReachableFiles(Tail(listing))

RECURSIVE AllFiles(_)
AllFiles(listing) ==
    IF listing = <<>> THEN {}
    ELSE LET e == Head(listing)
         IN  (IF e.type # "dir" THEN {e.path} ELSE AllFiles(e.listing))
                 \cup AllFiles(Tail(listing))

\* Whether every directory that is reached can be listed.
RECURSIVE AllListed(_)
AllListed(listing) ==
    \/ listing = <<>>
    \/ LET e == Head(listing)
       IN  /\ e.type = "dir" /\ e.name \notin SKIP_DIRS =>
                e.fetches /\ AllListed(e.listing)
           /\ AllListed(Tail(listing))

Times(seen, path) == Cardinality({i \in 1..Len(seen) : seen[i] = path})

\* A crawl whose root was listed has emptied its queue.
CrawlFinished ==
    /\ contents.run = "index_full" /\ contents.queue = <<>>
    /\ idx_last.run = "index_full"
    /\ ~(idx_last.outcome = "started" /\ ~idx_last.fetches)

VisitedOnce ==
    /\ \A path \in ReachableFiles(visited.root) : Times(visited.seen, path) = 1
    /\ \A i \in 1..Len(visited.seen) : visited.seen[i] \in ReachableFiles(visited.root)

\* C22: when a full crawl ends, every file that can be reached from the
\* root through directories whose names are not in the skip set has been
\* processed exactly once, and no file in or below a skipped directory has
\* been processed.
C22_ReachableOnce == CrawlFinished => VisitedOnce

\* The same for the repositories in which every directory that is reached
\* can be listed.
C22_ListedOnce == CrawlFinished /\ AllListed(visited.root) => VisitedOnce

\* No entry is ever queued twice and no file is processed twice, so a crawl
\* takes as many iterations as the tree has entries.
C22_NeverTwice ==
    /\ \A i \in 1..Len(visited.seen) : Times(visited.seen, visited.seen[i]) = 1
    /\ \A i \in 1..Len(visited.seen) : visited.seen[i] \in AllFiles(visited.root)

\* The chunks of the file of the step and the positions of those whose
\* embed call returned a vector.
StepChunks == _chunk_code(idx_last'.path, TextOf(idx_last'.content))
StepKept == ValidPositions(idx_last'.embs)

\* The embed calls of the step all returned (a vector or the empty list).
Embedded == idx_last'.requests > 0 /\ ~idx_last'.raised

StoreUntouched ==
    UNCHANGED <<embeddings, metadata, file_hashes, disk_embeddings, disk_metadata,
                disk_hashes>>

\* C23: of the chunks of a file, those whose embed call returned the empty
\* list are never stored; when the file is stored, its records are the
\* surviving chunks in order, each with the embedding returned for that very
\* chunk; a file of which no chunk survives is counted as skipped, not as an
\* error, and the store is left as it was.
C23_EmptyEmbeddingsDropped ==
    [][(FileStep /\ Embedded) =>
          /\ idx_last'.outcome = "indexed" =>
                /\ Len(RecordsOf(metadata', idx_last'.path)) = Len(StepKept)
                /\ \A i \in 1..Len(metadata') :
                      metadata'[i].file_path = idx_last'.path =>
                         LET pos == StepKept[metadata'[i].chunk_index + 1]
                         IN  /\ metadata'[i].name = StepChunks[pos].name
                             /\ metadata'[i].chunk_type = StepChunks[pos].type
                             /\ metadata'[i].content = Truncate(StepChunks[pos].content)
                             /\ embeddings'[i] = idx_last'.embs[pos]
                             /\ embeddings'[i] # <<>>
          /\ idx_last'.outcome # "indexed" =>
                RecordsOf(metadata', idx_last'.path) = <<>> \/ StoreUntouched
          /\ Len(StepKept) = 0 =>
                /\ stats' = [stats EXCEPT !.skipped = @ + 1]
                /\ StoreUntouched]_vars

\* C23 witness: of the two chunks of a file the first got the empty list
\* and the second a vector, and the file is stored as that one chunk with
\* that vector.
C23_Witness ==
    /\ idx_last.outcome = "indexed" /\ idx_last.requests = 2
    /\ idx_last.embs = <<<<>>, ChunkVector(2)>>
    /\ Len(RecordsOf(metadata, idx_last.path)) = 1
    /\ \E i \in 1..Len(metadata) :
          /\ metadata[i].file_path = idx_last.path
          /\ metadata[i].chunk_type = "full_file"
          /\ embeddings[i] = ChunkVector(2)

\* C24: replacing the chunks of a file is atomic for the caller: when
\* add_chunks raises part-way, the store in memory and its artifacts are
\* exactly as before the call, the previous chunks and the previous hash of
\* the file included.
C24_AtomicReplace ==
    [][(last'.op = "add_chunks" /\ last'.outcome = "raised") =>
          /\ UNCHANGED <<embeddings, metadata, file_hashes>>
          /\ UNCHANGED <<disk_embeddings, disk_metadata, disk_hashes>>]_vars

\* What a new process would load from the artifacts is what is in memory.
Durable ==
    /\ _load_embeddings(disk_embeddings) = embeddings
    /\ _load_metadata(disk_metadata) = metadata
    /\ _load_hashes(disk_hashes) = file_hashes

\* C25: the files of one crawl or batch are processed strictly one after
\* another.  Whenever the run is between two files, and all the while the
\* embeddings of the next file are requested, the persisted hash map,
\* metadata and matrix are those the previous file's processing left in
\* memory; at most one embedding request of the run is in flight, it is the
\* request for the first chunk not yet answered, and the requests were sent
\* in chunk order.
C25_OneFileAtATime ==
    /\ Durable
    /\ Cardinality(embed_batch.inflight) <= 1
    /\ embed_batch.inflight \subseteq {Len(embed_batch.embs) + 1}
    /\ \A j \in 1..Len(embed_batch.sent) : embed_batch.sent[j] = j
    /\ embed_batch.pc = "embedding" =>
          /\ Cardinality(embed_batch.inflight) = 1
          /\ Len(embed_batch.sent) = Len(embed_batch.embs) + 1
    /\ embed_batch.pc = "idle" => embed_batch.inflight = {}

\* C25 witness: the second request of the second file of a batch is in
\* flight, the first file being stored and persisted.
C25_Witness ==
    /\ contents.run = "index_files"
    /\ stats.indexed = 1 /\ Len(metadata) > 0
    /\ disk_metadata = Artifact(metadata) /\ disk_embeddings = Artifact(embeddings)
    /\ embed_batch.pc = "embedding" /\ embed_batch.inflight = {2}
    /\ embed_batch.sent = <<1, 2>>
    /\ \A i \in 1..Len(metadata) : metadata[i].file_path # embed_batch.path

\* The key at offset d from the cursor, in cyclic order.
KeyAt(d) == keys[((current_index + d) % Len(keys)) + 1]

SomeReady == \E i \in 1..Len(keys) : ~Cooling(cooldowns, now, keys[i])

\* The offset of the first key at or after the cursor that is not Cooling.
FirstReady ==
    CHOOSE d \in 0..(Len(keys) - 1) :
        /\ ~Cooling(cooldowns, now, KeyAt(d))
        /\ \A c \in 0..(d - 1) : Cooling(cooldowns, now, KeyAt(c))

\* C26: when some credential is Ready, get_next_key returns the first Ready
\* credential at or after the cursor in cyclic order, never a Cooling one,
\* and leaves the cursor just past the credential it returned; in
\* particular the call that follows report_rate_limit(k), another
\* credential being Ready, does not return k.
C26_FirstReadyFromCursor ==
    /\ [][(km_last'.op = "get_next_key" /\ SomeReady) =>
             /\ km_last'.key = KeyAt(FirstReady)
             /\ ~Cooling(cooldowns, now, km_last'.key)
             /\ current_index' = (current_index + FirstReady + 1) % Len(keys)]_vars
    /\ [][(km_last.op = "report_rate_limit" /\ km_last'.op = "get_next_key"
             /\ \E i \in 1..Len(keys) :
                   keys[i] # km_last.key /\ ~Cooling(cooldowns, now, keys[i])) =>
             km_last'.key # km_last.key]_vars

\* C26 witness: get_next_key passed two Cooling credentials, returned the
\* third and left the cursor just past it.
C26_Witness ==
    /\ km_last.op = "get_next_key" /\ km_last.examined = 3
    /\ Len(keys) = 3
    /\ ~Cooling(cooldowns, now, km_last.key)
    /\ Cardinality({k \in KeySet : Cooling(cooldowns, now, k)}) = 2
    /\ \E i \in 1..Len(keys) : keys[i] = km_last.key /\ current_index = i % Len(keys)

\* C27: the transitions of a credential's state.  report_rate_limit(c)
\* records c as Cooling until the report time plus 60 s whatever its state
\* was, so that a report on a Cooling credential restarts its cooldown, and
\* changes no other credential; get_next_key makes a Cooling credential
\* Ready only when it considers it at a time strictly greater than its
\* until (it is then the credential returned), and neither puts a credential
\* into Cooling nor changes an until; the passing of time changes no
\* recorded state.
C27_StateTransitions ==
    [][/\ km_last'.op = "report_rate_limit" =>
             /\ km_last'.key \in DOMAIN cooldowns'
             /\ cooldowns'[km_last'.key] = now + COOLDOWN_DURATION
             /\ DOMAIN cooldowns' = DOMAIN cooldowns \cup {km_last'.key}
             /\ \A k \in DOMAIN cooldowns : k # km_last'.key => cooldowns'[k] = cooldowns[k]
       /\ km_last'.op = "get_next_key" =>
             /\ DOMAIN cooldowns' \subseteq DOMAIN cooldowns
             /\ \A k \in DOMAIN cooldowns' : cooldowns'[k] = cooldowns[k]
             /\ \A k \in DOMAIN cooldowns \ DOMAIN cooldowns' :
                   now > cooldowns[k] /\ k = km_last'.key
       /\ km_last'.op = "tick" => cooldowns' = cooldowns]_vars

\* C27 witness: get_next_key has just made the credential it returned Ready
\* again, while another credential whose cooldown has elapsed as well, and
\* which was not considered, is still recorded as Cooling.
C27_Witness ==
    /\ km_last.op = "get_next_key"
    /\ reported /\ km_last.key \notin DOMAIN cooldowns
    /\ now > COOLDOWN_DURATION
    /\ \E k \in DOMAIN cooldowns : now > cooldowns[k]
    /\ \E k \in DOMAIN cooldowns : cooldowns[k] = COOLDOWN_DURATION + COOLDOWN_DURATION \div 2

\* The step is the answer to the request embed has in flight.
Answered == embed_call.pc = "requesting" /\ now' = now

\* C28: when a request is answered with 429, report_rate_limit is called
\* for exactly the credential the request used, and before the next
\* credential is selected: that credential is Cooling until now + 60, no
\* other credential is put into Cooling, and the selection that follows is
\* made on the cooldowns with the report in them (so it returns another
\* credential when one is Ready).  A request that fails in another way
\* (another status, a timeout, a transport error) leaves the cooldowns as
\* they were.
C28_ReportOn429Only ==
    [][Answered =>
          /\ embed_call'.resp = "rate_limited" =>
                /\ embed_call.api_key \in DOMAIN cooldowns'
                /\ cooldowns'[embed_call.api_key] = now + COOLDOWN_DURATION
                /\ DOMAIN cooldowns' \subseteq DOMAIN cooldowns \cup {embed_call.api_key}
                /\ \A k \in DOMAIN cooldowns' :
                      k # embed_call.api_key => cooldowns'[k] = cooldowns[k]
                /\ embed_call'.api_key =
                      get_next_key(keys, current_index,
                                   report_rate_limit(cooldowns, now, embed_call.api_key),
                                   now).key
                /\ (\E i \in 1..Len(keys) :
                       keys[i] # embed_call.api_key /\ ~Cooling(cooldowns, now, keys[i]))
                      => embed_call'.api_key # embed_call.api_key
          /\ embed_call'.resp # "rate_limited" => cooldowns' = cooldowns]_vars

\* C28 witness: the request with the first credential was answered with
\* 429; the credential is Cooling until now + 60 and the request in flight
\* uses the second one.
C28_Witness ==
    /\ embed_call.pc = "requesting" /\ embed_call.resp = "rate_limited"
    /\ embed_call.api_key = Credential(2)
    /\ DOMAIN cooldowns = {Credential(1)}
    /\ cooldowns[Credential(1)] = now + COOLDOWN_DURATION

\* The number of lines of the text whose pieces are content: a text that
\* ends with a newline has one piece more than it has lines.
LineCount(content) ==
    IF content[Len(content)] = 0 THEN Len(content) - 1 ELSE Len(content)

CodeChunks(chunks) == SelectSeq(chunks, LAMBDA c : c.type = "code_chunk")

\* The code_chunk chunks are the windows of 50 over lines 1..n of the file.
WindowsPartition(n) ==
    LET code == CodeChunks(chunk_call.chunks)
    IN  /\ Len(code) = (n + chunk_size - 1) \div chunk_size
        /\ \A j \in 0..(Len(code) - 1) :
              /\ code[j + 1].name = <<chunk_call.file_path, chunk_size * j + 1,
                                      Min(chunk_size * j + chunk_size, n)>>
              /\ code[j + 1].content
                    = SubSeq(chunk_call.content, chunk_size * j + 1,
                             Min(chunk_size * j + chunk_size, n))
              /\ j < Len(code) - 1 => Len(code[j + 1].content) = chunk_size

BigFileChunked == chunk_call.called /\ Chars(chunk_call.content) >= FULL_FILE_LIMIT

\* C29: for a file of at least 4000 characters the code_chunk windows
\* partition its n lines: there are ceil(n/50) of them, window j covers
\* lines 50j+1 .. min(50j+50, n) and is named with that range, and only the
\* last one may be shorter than 50 lines (a 4200-line file gives 84).
C29_WindowsPartitionLines ==
    BigFileChunked => WindowsPartition(LineCount(chunk_call.content))

\* The same with n the number of pieces content.split('\n') returns.
C29_WindowsPartitionPieces ==
    BigFileChunked => WindowsPartition(Len(chunk_call.content))

\* The step is a selection made while nothing was ever reported.
Selected == Len(issued') = Len(issued) + 1

\* C30: key selection is atomic under concurrent callers that interleave
\* only at the network round trips: each call of get_next_key, whichever
\* task makes it, returns the credential at the cursor and advances the
\* cursor exactly once, and while no credential is Cooling any K consecutive
\* selections, taken across all the tasks, return each of the K credentials
\* exactly once.
C30_AtomicSelection ==
    /\ [][Selected =>
             /\ issued'[Len(issued')] = keys[current_index + 1]
             /\ current_index' = (current_index + 1) % Len(keys)]_vars
    /\ [](~reported =>
             /\ current_index = Len(issued) % Len(keys)
             /\ \A i \in 1..Len(issued) : \A j \in 1..Len(issued) :
                   (i < j /\ j - i < Len(keys)) => issued[i] # issued[j]
             /\ \A i \in 1..Len(issued) :
                   i + Len(keys) <= Len(issued) => issued[i + Len(keys)] = issued[i])

\* C30 witness: two tasks have their requests in flight with different
\* credentials of a pool of two, after more selections than there are
\* credentials, the cursor having wrapped around.
C30_Witness ==
    /\ ~reported /\ Len(keys) = 2 /\ Len(issued) = 4
    /\ \A t \in 1..MaxTasks : tasks[t].pc = "requesting"
    /\ tasks[1].api_key # tasks[2].api_key
    /\ issued = <<Credential(1), Credential(2), Credential(1), Credential(2)>>

\* C31: no two indexing tasks of the same repository are ever in flight at
\* the same time.
C31_OneTaskPerRepo ==
    \A t \in DOMAIN writers : \A u \in DOMAIN writers :
        (t # u /\ writers[t].pc = "running" /\ writers[u].pc = "running") =>
            writers[t].repo_id # writers[u].repo_id

\* The persisted index of the repository has the hash and chunks of path.
Persisted(repo_id, path) ==
    /\ path \in DOMAIN _load_hashes(ArtifactsOf(dirs, repo_id).hashes)
    /\ Len(RecordsOf(_load_metadata(ArtifactsOf(dirs, repo_id).metadata), path)) > 0

\* C32: when the indexing tasks of one repository, each with a VectorStore
\* of its own, have all finished, the persisted index holds the hash entry
\* and the chunks of every file that one of them counted as indexed.
C32_NoLostUpdate ==
    (\A t \in DOMAIN writers : writers[t].pc = "done") =>
        \A t \in DOMAIN writers : \A path \in writers[t].indexed :
            Persisted(writers[t].repo_id, path)

\* C33: alignment survives emptying and restart: in a store that was
\* re-opened from disk, also after delete_file removed the last chunks of
\* the index, the matrix has as many rows as there are metadata records
\* (none when the index was emptied), and after a following add_chunks row i
\* is still the embedding of record i.
C33_AlignedAfterRestart ==
    restarts > 0 =>
        /\ Len(embeddings) = Len(metadata)
        /\ \A i \in 1..Len(metadata) : embeddings[i] = supplied[metadata[i].id]

\* C34: a file is never skipped as unchanged while it has no chunks: in
\* every state of a store, one loaded from a directory with missing or
\* unreadable artifacts included, a path for which needs_update returns
\* false for some content has at least one chunk record.
C34_FreshImpliesChunks ==
    \A path \in Files : \A c \in Contents :
        ~needs_update(file_hashes, path, c) => ChunkCount(metadata, path) > 0

\* C35: the content hash of a file is recorded only if every chunk produced
\* for the file received an embedding and was stored (so that a file of
\* which the embedding of some chunk failed is tried again by the next run
\* on the same content).
C35_HashOnlyWhenComplete ==
    [][(FileStep /\ file_hashes' # file_hashes) =>
          /\ Embedded
          /\ \A i \in 1..Len(StepChunks) : idx_last'.embs[i] # <<>>
          /\ Len(RecordsOf(metadata', idx_last'.path)) = Len(StepChunks)]_vars

Counted(st) == st.indexed + st.skipped + st.errors

\* C36: the counters account for every file exactly once: each file a crawl
\* or a batch processes increments exactly one of indexed, skipped and
\* errors by one, and all along a run of index_files(paths) the counted
\* files and the paths still to process add up to len(paths), so that
\* indexed + skipped + errors = len(paths) when it returns.
C36_CountedOnce ==
    /\ [][FileStep =>
             \/ stats' = [stats EXCEPT !.indexed = @ + 1]
             \/ stats' = [stats EXCEPT !.skipped = @ + 1]
             \/ stats' = [stats EXCEPT !.errors = @ + 1]]_vars
    /\ [](contents.run = "index_files" =>
             Counted(stats) + Len(contents.queue) = contents.n)

\* C36 witness: index_files returned for two paths, one counted as indexed
\* and the other as an error.
C36_Witness ==
    /\ contents.run = "index_files" /\ contents.n = 2 /\ contents.queue = <<>>
    /\ stats = [indexed |-> 1, skipped |-> 0, errors |-> 1]

\* A run of index_files on the paths and contents of the run before it,
\* which counted every one of its paths as indexed.
SameAgain ==
    /\ contents.run = "index_files" /\ contents.runs = 2
    /\ Len(visited.seen) = 1 /\ Len(visited.root) > 0
    /\ visited.seen[1].paths = visited.root
    /\ visited.seen[1].stats.indexed = Len(visited.root)

\* C37: indexing is idempotent on unchanged content: in a run of
\* index_files that follows a run on the same paths and contents in which
\* every path was counted as indexed, every path is counted as skipped, no
\* embedding is requested, and the store and its artifacts do not change,
\* whether the run uses the same store or one loaded again.
C37_RerunSkipsAll ==
    /\ [][(SameAgain /\ FileStep) =>
             /\ idx_last'.outcome = "skipped" /\ idx_last'.requests = 0
             /\ stats' = [stats EXCEPT !.skipped = @ + 1]
             /\ UNCHANGED <<embeddings, metadata, file_hashes, disk_embeddings,
                            disk_metadata, disk_hashes>>]_vars
    /\ [](SameAgain /\ Len(contents.queue) = 0 =>
             stats = [indexed |-> 0, skipped |-> Len(visited.root), errors |-> 0])

\* C37 witness: the second run on two paths that the first run indexed has
\* ended with a store loaded again in between.
C37_Witness ==
    /\ SameAgain /\ Len(contents.queue) = 0 /\ Len(visited.root) = 2
    /\ restarts = 1 /\ stats.skipped = 2

\* C38: every file in the index satisfies the eligibility rules: a crawl or
\* a run of index_files counts a file as indexed only when its extension is
\* in the supported set and its size is at most MAX_FILE_SIZE.
C38_IndexedIsEligible ==
    [][(FileStep /\ idx_last'.outcome = "indexed") =>
          /\ ~Unsupported(idx_last'.path)
          /\ ~TooLarge(idx_last'.size)]_vars

RepoIds == {RepoA, RepoB, RepoX}

\* C39: repository indexes are isolated: a step of a task of one
\* repository leaves the persisted artifacts of every repository with
\* another identifier, and so what a store opened for it returns, unchanged.
C39_ReposIsolated ==
    [][\A t \in DOMAIN writers :
          (writers[t].pc = "running" /\ writers'[t] # writers[t]) =>
              \A repo_id \in RepoIds :
                  repo_id # writers[t].repo_id =>
                      ArtifactsOf(dirs', repo_id) = ArtifactsOf(dirs, repo_id)]_vars

\* C40: get_next_key ends after examining at most K credentials, whatever
\* the cooldowns and the cursor; it returns no key exactly when no
\* credential is configured, and otherwise a configured credential, the
\* cursor staying in 0..K-1.
C40_BoundedScan ==
    /\ Len(keys) > 0 => current_index \in 0..(Len(keys) - 1)
    /\ km_last.op = "get_next_key" =>
          /\ km_last.examined <= Len(keys)
          /\ (km_last.key = None) <=> (Len(keys) = 0)
          /\ Len(keys) > 0 => km_last.key \in KeySet /\ km_last.examined >= 1

\* C40 witness: with three credentials all cooling down, get_next_key
\* examined the three of them and returned one of them.
C40_Witness ==
    /\ km_last.op = "get_next_key" /\ Len(keys) = 3 /\ km_last.examined = 3
    /\ \A k \in KeySet : Cooling(cooldowns, now, k)
    /\ km_last.key \in KeySet

====
